---------------------------- MODULE Spec2Model ----------------------------
(***************************************************************************)
(* Device-facing protocol engine of the lawnmower fleet backend:           *)
(* frame codec and layered message codec (protocolService.js), crypto      *)
(* primitives (cryptoService.js) and the per-connection TCP session        *)
(* (TCPService in stateService.js).                                         *)
(*                                                                         *)
(* Conventions.  A Buffer is a sequence of bytes 0..255; offsets are the   *)
(* 0-based offsets of the source, so buffer[i] of the source is            *)
(* buffer[i+1] here.  TLC integers are 32-bit signed, so an unsigned       *)
(* 32-bit Number is a pair <<hi, lo>> of 16-bit halves (a "word") and the  *)
(* 64-bit BigInt nonce is four 16-bit quarters.  A thrown Error is a       *)
(* result record whose err field holds the message.                        *)
(***************************************************************************)
EXTENDS Integers, Sequences, FiniteSets, TLC

\* null and undefined where the source holds a Number, a BigInt or a Buffer:
\* one-element tuples, which differ from every word, nonce and HMAC
NULL == <<"null">>
UNDEFINED == <<"undefined">>
\* the err field of a call that returned normally
OK == "ok"

-----------------------------------------------------------------------------
(* Buffer helpers                                                          *)

\* Buffer.prototype.slice(start, end) with 0-based, end-exclusive offsets.
Slice(buffer, start, end) ==
    LET e == IF end > Len(buffer) THEN Len(buffer) ELSE end
    IN  IF start >= e THEN <<>> ELSE SubSeq(buffer, start + 1, e)

SliceFrom(buffer, start) == Slice(buffer, start, Len(buffer))

RECURSIVE SumBytes(_, _, _)
\* sum of buffer[lo..hi] (1-based, inclusive), halving so that long buffers
\* need only logarithmic depth
SumBytes(buffer, lo, hi) ==
    IF lo > hi THEN 0
    ELSE IF lo = hi THEN buffer[lo]
    ELSE LET mid == (lo + hi) \div 2
         IN  SumBytes(buffer, lo, mid) + SumBytes(buffer, mid + 1, hi)

RECURSIVE Pow2(_)
Pow2(n) == IF n = 0 THEN 1 ELSE 2 * Pow2(n - 1)

-----------------------------------------------------------------------------
(* protocolService.js: frame codec                                         *)

SOF_MARKER == 170
TIMEOUT_CONNECTION == 2000

RECURSIVE encodeLengthLoop(_)
encodeLengthLoop(length) ==
    IF length > 0
    THEN LET byte == length % 128
             rest == length \div 128
         IN  <<IF rest > 0 THEN byte + 128 ELSE byte>> \o encodeLengthLoop(rest)
    ELSE <<>>

\* a faulty encodeLength: only the low seven bits are written
encodeLengthLowBits(length) == <<length % 128>>

encodeLength(length) ==
    IF length = 0 THEN <<0>> ELSE encodeLengthLoop(length)

RECURSIVE decodeLengthLoop(_, _, _, _)
decodeLengthLoop(buffer, length, offset, shift) ==
    IF offset < Len(buffer)
    THEN LET byte == buffer[offset + 1]
             length2 == length + (byte % 128) * Pow2(shift)
         IN  IF byte < 128
             THEN [err |-> OK, length |-> length2, offset |-> offset + 1]
             ELSE IF shift + 7 >= 21
                  THEN [err |-> "Length encoding too long", length |-> 0, offset |-> 0]
                  ELSE decodeLengthLoop(buffer, length2, offset + 1, shift + 7)
    ELSE [err |-> OK, length |-> length, offset |-> offset]

decodeLength(buffer, startOffset) == decodeLengthLoop(buffer, 0, startOffset, 0)

calculateChecksum(buffer) ==
    LET sum == SumBytes(buffer, 1, Len(buffer))
        checksum == (65536 - (sum % 65536)) % 65536
    IN  <<checksum \div 256, checksum % 256>>

createFrame(payload) ==
    LET lengthBytes == encodeLength(Len(payload))
        frameWithoutChecksum == <<SOF_MARKER>> \o lengthBytes \o payload
    IN  frameWithoutChecksum \o calculateChecksum(frameWithoutChecksum)

FrameError(msg) == [err |-> msg, payload |-> <<>>, totalLength |-> 0]

\* a faulty parseFrame: the checksum is compared and a mismatch ignored
parseFrameUnchecked(buffer) ==
    IF Len(buffer) < 4 THEN FrameError("Frame too short")
    ELSE IF buffer[1] # SOF_MARKER THEN FrameError("Invalid SOF marker")
    ELSE IF decodeLength(buffer, 1).err # OK THEN FrameError(decodeLength(buffer, 1).err)
    ELSE IF Len(buffer) < decodeLength(buffer, 1).offset + decodeLength(buffer, 1).length + 2
    THEN FrameError("Incomplete frame")
    ELSE [err |-> OK,
          payload |-> Slice(buffer, decodeLength(buffer, 1).offset,
                            decodeLength(buffer, 1).offset + decodeLength(buffer, 1).length),
          totalLength |-> decodeLength(buffer, 1).offset + decodeLength(buffer, 1).length + 2]

parseFrame(buffer) ==
    IF Len(buffer) < 4 THEN FrameError("Frame too short")
    ELSE IF buffer[1] # SOF_MARKER THEN FrameError("Invalid SOF marker")
    ELSE LET lengthResult == decodeLength(buffer, 1)
         IN  IF lengthResult.err # OK THEN FrameError(lengthResult.err)
             ELSE LET payloadLength == lengthResult.length
                      offset == lengthResult.offset
                  IN  IF Len(buffer) < offset + payloadLength + 2
                      THEN FrameError("Incomplete frame")
                      ELSE LET payload == Slice(buffer, offset, offset + payloadLength)
                               receivedChecksum ==
                                   Slice(buffer, offset + payloadLength,
                                         offset + payloadLength + 2)
                               calculatedChecksum ==
                                   calculateChecksum(Slice(buffer, 0, offset + payloadLength))
                           IN  IF receivedChecksum # calculatedChecksum
                               THEN FrameError("Checksum mismatch")
                               ELSE [err |-> OK, payload |-> payload,
                                     totalLength |-> offset + payloadLength + 2]

-----------------------------------------------------------------------------
(* protocolService.js: session, presentation and application layers        *)

MT_REGULAR == 0
MT_HELLO == 1
MT_CHALLENGE == 2
MT_CLIENT_AUTH == 3
MT_NOTIFICATION == 128

CMD_HEARTBEAT == 0
CMD_CONTROL_DEVICE == 1
CMD_ACK_ERROR == 2
CMD_RESET_BLADE_TIME == 3

ACTION_STOP == 0
ACTION_START == 1
ACTION_HOME == 2

NT_DEVICE_STATUS == 0
NT_POSITION_UPDATE == 1

BYPASS_HMAC == <<250, 222, 219, 237>>

createSessionMessage(messageType, payload, hmac) ==
    (IF hmac = NULL THEN BYPASS_HMAC ELSE hmac) \o <<messageType>> \o payload

parseSessionMessage(buffer) ==
    IF Len(buffer) < 5
    THEN [err |-> "Session message too short", hmac |-> <<>>, messageType |-> 0,
          payload |-> <<>>]
    ELSE [err |-> OK, hmac |-> Slice(buffer, 0, 4), messageType |-> buffer[5],
          payload |-> SliceFrom(buffer, 5)]

\* a faulty createPresentationMessage: the IIN is written little-endian
createPresentationMessageLE(iin, payload) ==
    <<iin % 256, (iin \div 256) % 256>> \o payload

createPresentationMessage(iin, payload) ==
    <<(iin \div 256) % 256, iin % 256>> \o payload

parsePresentationMessage(buffer) ==
    IF Len(buffer) < 2
    THEN [err |-> "Presentation message too short", iin |-> 0, payload |-> <<>>]
    ELSE [err |-> OK, iin |-> buffer[1] * 256 + buffer[2],
          payload |-> SliceFrom(buffer, 2)]

createCommand(command, payload) == <<command>> \o payload

parseCommand(buffer) ==
    IF Len(buffer) < 1
    THEN [err |-> "Command too short", command |-> 0, payload |-> <<>>]
    ELSE [err |-> OK, command |-> buffer[1], payload |-> SliceFrom(buffer, 1)]

-----------------------------------------------------------------------------
(* 32-bit unsigned arithmetic on words <<hi, lo>>                          *)

W(hi, lo) == <<hi, lo>>
ZeroW == W(0, 0)

\* Buffer.writeUInt32BE / readUInt32BE
U32BE(w) == <<w[1] \div 256, w[1] % 256, w[2] \div 256, w[2] % 256>>
ReadU32BE(buffer, offset) ==
    W(buffer[offset + 1] * 256 + buffer[offset + 2],
      buffer[offset + 3] * 256 + buffer[offset + 4])

\* Buffer.writeBigUInt64BE / readBigUInt64BE on four 16-bit quarters
U64BE(n) ==
    <<n[1] \div 256, n[1] % 256, n[2] \div 256, n[2] % 256,
      n[3] \div 256, n[3] % 256, n[4] \div 256, n[4] % 256>>
ReadU64BE(buffer, offset) ==
    <<buffer[offset + 1] * 256 + buffer[offset + 2],
      buffer[offset + 3] * 256 + buffer[offset + 4],
      buffer[offset + 5] * 256 + buffer[offset + 6],
      buffer[offset + 7] * 256 + buffer[offset + 8]>>

RECURSIVE Xor16(_, _)
Xor16(a, b) ==
    IF a = 0 THEN b
    ELSE IF b = 0 THEN a
    ELSE ((a + b) % 2) + 2 * Xor16(a \div 2, b \div 2)

XorW(a, b) == W(Xor16(a[1], b[1]), Xor16(a[2], b[2]))

\* a < b for words whose high half may hold a carry
WLess(a, b) == a[1] < b[1] \/ (a[1] = b[1] /\ a[2] < b[2])

\* a - b for a >= b
WSub(a, b) ==
    IF a[2] >= b[2] THEN W(a[1] - b[1], a[2] - b[2])
    ELSE W(a[1] - b[1] - 1, a[2] + 65536 - b[2])

\* BigInt(a) % BigInt(m) for 32-bit a and a modulus m above 2^31
WMod(a, m) == IF WLess(a, m) THEN a ELSE WSub(a, m)

\* The 64-bit product a * b of two words, as four 16-bit quarters
\* <<p3, p2, p1, p0>>, from the byte products (each sum stays below 2^31).
WMul(a, b) ==
    LET a3 == a[1] \div 256  a2 == a[1] % 256  a1 == a[2] \div 256  a0 == a[2] % 256
        b3 == b[1] \div 256  b2 == b[1] % 256  b1 == b[2] \div 256  b0 == b[2] % 256
        c0 == a0 * b0
        c1 == a0 * b1 + a1 * b0
        c2 == a0 * b2 + a1 * b1 + a2 * b0
        c3 == a0 * b3 + a1 * b2 + a2 * b1 + a3 * b0
        c4 == a1 * b3 + a2 * b2 + a3 * b1
        c5 == a2 * b3 + a3 * b2
        c6 == a3 * b3
        t0 == c0 + (c1 % 256) * 256
        t1 == c2 + (c3 % 256) * 256 + t0 \div 65536 + c1 \div 256
        t2 == c4 + (c5 % 256) * 256 + t1 \div 65536 + c3 \div 256
        t3 == c6 + t2 \div 65536 + c5 \div 256
    IN  <<t3, t2 % 65536, t1 % 65536, t0 % 65536>>

\* (a * b) % 0xFFFFFFFB, the BigInt "(x * y) % modulus" of the source for the
\* one modulus it is called with: 2^32 = 5 (mod 0xFFFFFFFB), so the high
\* half of the product folds into the low half five-fold.
MulModFold(p, m) ==
    LET u0 == 5 * p[2] + p[4]
        u1 == 5 * p[1] + p[3] + u0 \div 65536
        v0 == (u0 % 65536) + 5 * (u1 \div 65536)
        v1 == (u1 % 65536) + v0 \div 65536
        w0 == (v0 % 65536) + 5 * (v1 \div 65536)
    IN  WMod(W((v1 % 65536) + w0 \div 65536, w0 % 65536), m)

MulMod(a, b, m) == MulModFold(WMul(a, b), m)

-----------------------------------------------------------------------------
(* cryptoService.js                                                        *)

DH_GENERATOR == W(0, 5)
DH_MODULUS == W(65535, 65531)
PSK == W(65261, 24301)

RECURSIVE modExpBase(_, _, _)
\* the loop variable base after k iterations: base squared k times (a zero
\* stays zero; the test also has each value computed before the next)
modExpBase(base, k, modulus) ==
    IF k = 0 THEN base
    ELSE LET b == modExpBase(base, k - 1, modulus)
         IN  IF b = ZeroW THEN ZeroW ELSE MulMod(b, b, modulus)

RECURSIVE modExpResult(_, _, _, _)
\* the loop variable result after k iterations of
\*   if (exponent % 2n === 1n) result = (result * base) % modulus;
\*   exponent = exponent >> 1n; base = (base * base) % modulus;
modExpResult(base, exponent, k, modulus) ==
    IF k = 0 THEN W(0, 1)
    ELSE LET r == modExpResult(base, exponent, k - 1, modulus)
         IN  IF r = ZeroW THEN ZeroW
             ELSE IF (exponent \div Pow2(k - 1)) % 2 = 1
                  THEN MulMod(r, modExpBase(base, k - 1, modulus), modulus)
                  ELSE r

RECURSIVE BitLength(_)
\* the number of iterations of "while (exponent > 0n)"
BitLength(exponent) == IF exponent > 0 THEN 1 + BitLength(exponent \div 2) ELSE 0

\* base and exponent arrive as numbers (words); the exponents of this program
\* are 16-bit secrets, so BigInt(exponent) fits an integer of the model.
modularExponentiation(base, exponent, modulus) ==
    LET e == exponent[1] * 65536 + exponent[2]
    IN  modExpResult(WMod(base, modulus), e, BitLength(e), modulus)

calculatePublicKey(secret) ==
    modularExponentiation(DH_GENERATOR, secret, DH_MODULUS)

\* a faulty calculateSharedSecret: the generator raised to the own secret,
\* whatever the key of the other end
calculateSharedSecretOwnKey(otherPublicKey, mySecret) ==
    modularExponentiation(DH_GENERATOR, mySecret, DH_MODULUS)

calculateSharedSecret(otherPublicKey, mySecret) ==
    modularExponentiation(otherPublicKey, mySecret, DH_MODULUS)

\* The secrets and nonces the model draws from.
ClientSecrets == {W(0, 4660)}
ServerSecrets == {W(0, 22136), W(0, 65535)}
Nonces == {<<258, 772, 1286, 1800>>, <<65535, 0, 0, 1>>}

\* crypto.randomInt(1, 0x10000): any of the secrets of the model
generateRandomSecret == ServerSecrets

\* crypto.randomBytes(8).readBigUInt64BE(0): any of the nonces of the model
generateNonce == Nonces

\* The exponentiations of the model, computed once per argument and looked up
\* by the handlers: <<argument, value>> and <<key, secret, value>>.
PublicKeyMemo ==
    {<<s, calculatePublicKey(s)>> : s \in ServerSecrets \cup ClientSecrets}

PublicKey(secret) == (CHOOSE e \in PublicKeyMemo : e[1] = secret)[2]

ClientPublicKeys == {PublicKey(s) : s \in ClientSecrets}

SharedSecretMemo ==
    {<<k, s, calculateSharedSecret(k, s)>> : k \in ClientPublicKeys, s \in ServerSecrets}

SharedSecret(otherPublicKey, mySecret) ==
    (CHOOSE e \in SharedSecretMemo : e[1] = otherPublicKey /\ e[2] = mySecret)[3]

\* no key agreement computed on its own
NoExchange ==
    [a |-> NULL, b |-> NULL, A |-> NULL, B |-> NULL, sharedA |-> NULL, sharedB |-> NULL,
     step |-> "none"]

RECURSIVE hashLoop(_, _)
\* hash after the first n bytes: hash = (31 * hash + byte) >>> 0
hashLoop(payload, n) ==
    IF n = 0 THEN ZeroW
    ELSE LET hash == hashLoop(payload, n - 1)
             lo == 31 * hash[2] + payload[n]
         IN  W((31 * hash[1] + lo \div 65536) % 65536, lo % 65536)

calculateHash(payload) == hashLoop(payload, Len(payload))

calculateMAC(key, payload) == XorW(calculateHash(payload), key)

\* a faulty createChallenge: the tag is that of A || B || Ns, which is the
\* tag CLIENT_AUTH carries
createChallengeClientFirst(serverSecret, clientPublicKey, nonce) ==
    [serverPublicKey |-> PublicKey(serverSecret), nonce |-> nonce,
     authS |-> calculateMAC(PSK, U32BE(clientPublicKey) \o U32BE(PublicKey(serverSecret))
                                     \o U64BE(nonce))]

createChallenge(serverSecret, clientPublicKey, nonce) ==
    LET B == PublicKey(serverSecret)
        macData == U32BE(B) \o U32BE(clientPublicKey) \o U64BE(nonce)
    IN  [serverPublicKey |-> B, nonce |-> nonce, authS |-> calculateMAC(PSK, macData)]

createClientAuth(clientSecret, serverPublicKey, nonce) ==
    LET A == PublicKey(clientSecret)
        macData == U32BE(A) \o U32BE(serverPublicKey) \o U64BE(nonce)
    IN  [clientPublicKey |-> A, authC |-> calculateMAC(PSK, macData)]

\* writeUInt32BE(null) writes 0 and writeUInt32BE(undefined) writes NaN as 0;
\* writeBigUInt64BE(null) throws a TypeError (null & 0xffffffffn).
NumberOrZero(v) == IF v \in {NULL, UNDEFINED} THEN ZeroW ELSE v

\* a faulty verifyAuth: any tag passes once a nonce is stored
verifyAuthAnyTag(publicKeyA, publicKeyB, nonce, receivedAuth, isServer) ==
    IF nonce \in {NULL, UNDEFINED}
    THEN [err |-> "Cannot mix BigInt and other types", valid |-> FALSE]
    ELSE [err |-> OK, valid |-> TRUE]

verifyAuth(publicKeyA, publicKeyB, nonce, receivedAuth, isServer) ==
    IF nonce \in {NULL, UNDEFINED}
    THEN [err |-> "Cannot mix BigInt and other types", valid |-> FALSE]
    ELSE LET macData ==
                 (IF isServer
                  THEN U32BE(NumberOrZero(publicKeyA)) \o U32BE(NumberOrZero(publicKeyB))
                  ELSE U32BE(NumberOrZero(publicKeyB)) \o U32BE(NumberOrZero(publicKeyA)))
                 \o U64BE(nonce)
             expectedAuth == calculateMAC(PSK, macData)
         IN  [err |-> OK, valid |-> (expectedAuth = receivedAuth)]

createHelloPayload(clientPublicKey) == U32BE(clientPublicKey)

parseHelloPayload(buffer) ==
    IF Len(buffer) < 4
    THEN [err |-> "Invalid Hello message length", value |-> ZeroW]
    ELSE [err |-> OK, value |-> ReadU32BE(buffer, 0)]

createChallengePayload(serverPublicKey, nonce, authS) ==
    U32BE(serverPublicKey) \o U64BE(nonce) \o U32BE(authS)

createClientAuthPayload(authC) == U32BE(authC)

parseClientAuthPayload(buffer) ==
    IF Len(buffer) < 4
    THEN [err |-> "Invalid Client Authentication message length", value |-> ZeroW]
    ELSE [err |-> OK, value |-> ReadU32BE(buffer, 0)]

calculateHMAC(key, payload) == calculateMAC(key, payload)

\* a faulty createAuthenticatedHMAC: keyed with the PSK
createAuthenticatedHMACWithPSK(sharedSecret, payload) ==
    U32BE(calculateHMAC(PSK, payload))

createAuthenticatedHMAC(sharedSecret, payload) ==
    U32BE(calculateHMAC(sharedSecret, payload))

getBypassHMAC == <<250, 222, 219, 237>>

\* a faulty isBypassHMAC: every HMAC passes
isBypassHMACAny(hmac) == Len(hmac) = 4

isBypassHMAC(hmac) == hmac = getBypassHMAC

-----------------------------------------------------------------------------
(* stateService.js, class TCPService: the handlers.                         *)
(*                                                                         *)
(* A handler runs on a record m: conn is the connectionInfo of the         *)
(* connection, socket the state of its socket, rnd the values the random   *)
(* generators return during the event, and the other fields are what the   *)
(* event has done so far: rows written to communication_logs (logs),       *)
(* device_states (states), battery_levels (battery) and gps_positions      *)
(* (gps), frames written to the socket (wire), frame payloads handed to    *)
(* processFrame (processed) and calls of handleCommand (handled).  db tells *)
(* whether the database takes the rows: when it does not, execute() rejects *)
(* inside the try of the four writers, whose catch prints the error, so the *)
(* handlers, which do not await them, go on as they do when it does.        *)

\* socket.write(frame): a destroyed socket sends nothing
socketWrite(m, frame) ==
    IF m.socket = "open" THEN [m EXCEPT !.wire = Append(@, frame)] ELSE m

\* a faulty socketDestroy: the socket stays open
socketKeepOpen(m) == m

\* socket.destroy()
socketDestroy(m) ==
    [m EXCEPT !.socket = IF @ = "open" THEN "destroyed" ELSE @]

logCommunication(m, severity, eventType) ==
    [m EXCEPT !.logs = Append(@, <<severity, eventType>>)]

\* a faulty updateDeviceState: a failed INSERT is not caught and ends the
\* connection
updateDeviceStateThrows(m, state) ==
    IF m.db THEN [m EXCEPT !.states = Append(@, state)] ELSE socketDestroy(m)

updateDeviceState(m, state) ==
    [m EXCEPT !.states = Append(@, state)]

storeTelemetryData(m, data) ==
    [m EXCEPT !.battery = Append(@, data.batteryLevel),
              !.states = IF data.state # "" THEN Append(@, data.state) ELSE @]

storeGPSData(m, data) ==
    [m EXCEPT !.gps = Append(@, data)]

\* Buffer.from('Invalid control command', 'utf-8')
InvalidControlCommand ==
    <<73, 110, 118, 97, 108, 105, 100, 32, 99, 111, 110, 116, 114, 111, 108, 32,
      99, 111, 109, 109, 97, 110, 100>>

\* a faulty sendErrorResponse: the message text is left out
sendErrorResponseNoText(m, iin, errorMessage) ==
    logCommunication(
        socketWrite(m, createFrame(createSessionMessage(MT_REGULAR,
                           createPresentationMessage(iin, createCommand(255, <<>>)),
                           getBypassHMAC))),
        "Error", "Error_Response")

sendErrorResponse(m, iin, errorMessage) ==
    LET responseCommand == createCommand(255, errorMessage)
        presentationMsg == createPresentationMessage(iin, responseCommand)
        hmac == IF m.conn.authenticated
                THEN createAuthenticatedHMAC(m.conn.sharedSecret, presentationMsg)
                ELSE getBypassHMAC
        sessionMsg == createSessionMessage(MT_REGULAR, presentationMsg, hmac)
        frame == createFrame(sessionMsg)
    IN  logCommunication(socketWrite(m, frame), "Error", "Error_Response")

\* a faulty handleHeartbeat: the response has no body
handleHeartbeatNoEcho(m, iin, payload) ==
    logCommunication(
        socketWrite(m, createFrame(createSessionMessage(MT_REGULAR,
                           createPresentationMessage(iin, createCommand(128, <<>>)),
                           getBypassHMAC))),
        "Information", "Heartbeat_Response")

handleHeartbeat(m, iin, payload) ==
    LET responseCommand == createCommand(128, payload)
        presentationMsg == createPresentationMessage(iin, responseCommand)
        hmac == IF m.conn.authenticated
                THEN createAuthenticatedHMAC(m.conn.sharedSecret, presentationMsg)
                ELSE getBypassHMAC
        sessionMsg == createSessionMessage(MT_REGULAR, presentationMsg, hmac)
        frame == createFrame(sessionMsg)
    IN  logCommunication(socketWrite(m, frame), "Information", "Heartbeat_Response")

\* a faulty handleControlDevice: every action pauses the device
handleControlDevicePause(m, iin, payload) ==
    logCommunication(updateDeviceState(m, "Paused"), "Information", "Control_Command")

handleControlDevice(m, iin, payload) ==
    IF Len(payload) < 1
    THEN sendErrorResponse(m, iin, InvalidControlCommand)
    ELSE LET action == payload[1]
             newState == CASE action = ACTION_STOP -> "Paused"
                           [] action = ACTION_START -> "Mowing"
                           [] action = ACTION_HOME -> "ReturningToStation"
                           [] OTHER -> ""
             m1 == IF newState # "" THEN updateDeviceState(m, newState) ELSE m
             responseCommand == createCommand(129, <<>>)
             presentationMsg == createPresentationMessage(iin, responseCommand)
             hmac == IF m.conn.authenticated
                     THEN createAuthenticatedHMAC(m.conn.sharedSecret, presentationMsg)
                     ELSE getBypassHMAC
             sessionMsg == createSessionMessage(MT_REGULAR, presentationMsg, hmac)
             frame == createFrame(sessionMsg)
         IN  logCommunication(socketWrite(m1, frame), "Information", "Control_Command")

handleAckError(m, iin) ==
    LET m1 == updateDeviceState(m, "Paused")
        responseCommand == createCommand(130, <<>>)
        presentationMsg == createPresentationMessage(iin, responseCommand)
        hmac == IF m.conn.authenticated
                THEN createAuthenticatedHMAC(m.conn.sharedSecret, presentationMsg)
                ELSE getBypassHMAC
        sessionMsg == createSessionMessage(MT_REGULAR, presentationMsg, hmac)
        frame == createFrame(sessionMsg)
    IN  logCommunication(socketWrite(m1, frame), "Information", "Ack_Error")

handleResetBladeTime(m, iin) ==
    LET responseCommand == createCommand(131, <<>>)
        presentationMsg == createPresentationMessage(iin, responseCommand)
        hmac == IF m.conn.authenticated
                THEN createAuthenticatedHMAC(m.conn.sharedSecret, presentationMsg)
                ELSE getBypassHMAC
        sessionMsg == createSessionMessage(MT_REGULAR, presentationMsg, hmac)
        frame == createFrame(sessionMsg)
    IN  logCommunication(socketWrite(m, frame), "Information", "Reset_Blade_Time")

\* a faulty handleCommand: a command it does not know is answered with an
\* error response
handleCommandAnswersUnknown(m, iin, command) ==
    CASE command.command = CMD_HEARTBEAT ->
             handleHeartbeat([m EXCEPT !.handled = Append(@, [iin |-> iin, command |-> command])],
                             iin, command.payload)
      [] command.command = CMD_CONTROL_DEVICE ->
             handleControlDevice([m EXCEPT !.handled = Append(@, [iin |-> iin, command |-> command])],
                                 iin, command.payload)
      [] command.command = CMD_ACK_ERROR ->
             handleAckError([m EXCEPT !.handled = Append(@, [iin |-> iin, command |-> command])], iin)
      [] command.command = CMD_RESET_BLADE_TIME ->
             handleResetBladeTime([m EXCEPT !.handled = Append(@, [iin |-> iin, command |-> command])], iin)
      [] OTHER ->
             sendErrorResponse([m EXCEPT !.handled = Append(@, [iin |-> iin, command |-> command])],
                               iin, <<>>)

handleCommand(m, iin, command) ==
    LET m1 == [m EXCEPT !.handled = Append(@, [iin |-> iin, command |-> command])]
    IN  CASE command.command = CMD_HEARTBEAT -> handleHeartbeat(m1, iin, command.payload)
          [] command.command = CMD_CONTROL_DEVICE -> handleControlDevice(m1, iin, command.payload)
          [] command.command = CMD_ACK_ERROR -> handleAckError(m1, iin)
          [] command.command = CMD_RESET_BLADE_TIME -> handleResetBladeTime(m1, iin)
          [] OTHER -> logCommunication(m1, "Warning", "Unknown_Command")

handleRegularMessage(m, sessionMsg) ==
    IF ~m.conn.authenticated /\ ~isBypassHMAC(sessionMsg.hmac)
    THEN logCommunication(m, "Warning", "Unauthenticated_Message")
    ELSE LET presentationMsg == parsePresentationMessage(sessionMsg.payload)
             command == parseCommand(presentationMsg.payload)
         IN  IF presentationMsg.err # OK \/ command.err # OK
             THEN logCommunication(m, "Error", "Command_Parse_Error")
             ELSE handleCommand(m, presentationMsg.iin, command)

handleHello(m, sessionMsg) ==
    LET parsed == parseHelloPayload(sessionMsg.payload)
        clientPublicKey == parsed.value
        serverSecret == m.rnd.serverSecret
        nonce == m.rnd.nonce
        challenge == createChallenge(serverSecret, clientPublicKey, nonce)
        m1 == [m EXCEPT !.conn.authState =
                  [serverSecret |-> serverSecret, clientPublicKey |-> clientPublicKey,
                   nonce |-> nonce, serverPublicKey |-> challenge.serverPublicKey]]
        challengePayload ==
            createChallengePayload(challenge.serverPublicKey, challenge.nonce,
                                   challenge.authS)
        sessionMessage == createSessionMessage(MT_CHALLENGE, challengePayload, <<0, 0, 0, 0>>)
        presentationMsg == createPresentationMessage(0, sessionMessage)
        frame == createFrame(presentationMsg)
    IN  IF parsed.err # OK
        THEN logCommunication(m, "Error", "Auth_Hello_Error")
        ELSE logCommunication(socketWrite(m1, frame), "Information", "Auth_Challenge_Sent")

handleClientAuth(m, sessionMsg) ==
    LET parsed == parseClientAuthPayload(sessionMsg.payload)
        authC == parsed.value
        isValid == verifyAuth(m.conn.authState.clientPublicKey,
                              m.conn.authState.serverPublicKey,
                              m.conn.authState.nonce, authC, TRUE)
        sharedSecret == SharedSecret(m.conn.authState.clientPublicKey,
                                     m.conn.authState.serverSecret)
    IN  IF parsed.err # OK \/ isValid.err # OK
        THEN socketDestroy(logCommunication(m, "Error", "Auth_Client_Error"))
        ELSE IF isValid.valid
             THEN logCommunication([m EXCEPT !.conn.authenticated = TRUE,
                                             !.conn.sharedSecret = sharedSecret],
                                   "Information", "Auth_Success")
             ELSE socketDestroy(logCommunication(m, "Error", "Auth_Failed"))

\* stateMap[status] || 'Unknown'
stateMap(status) ==
    CASE status = 0 -> "StationCharging"
      [] status = 1 -> "StationChargingCompleted"
      [] status = 2 -> "Mowing"
      [] status = 3 -> "ReturningToStation"
      [] status = 4 -> "Paused"
      [] status = 128 -> "Error"
      [] OTHER -> "Unknown"

\* batteryLevel = data[0] / 2 is kept as <<whole percent, tenths>>
handleDeviceStatusNotification(m, data) ==
    IF Len(data) < 6 THEN m
    ELSE LET batteryLevel == <<data[1] \div 2, 5 * (data[1] % 2)>>
             status == data[6]
             stateName == stateMap(status)
             m1 == storeTelemetryData(m, [batteryLevel |-> batteryLevel, state |-> stateName])
         IN  logCommunication(m1, "Information", "Status_Update")

\* the two floats are kept as the four bytes read
handlePositionUpdateNotification(m, data) ==
    IF Len(data) < 12 THEN m
    ELSE LET timestamp == ReadU32BE(data, 0)
             latitude == Slice(data, 4, 8)
             longitude == Slice(data, 8, 12)
             m1 == storeGPSData(m, [latitude |-> latitude, longitude |-> longitude,
                                    timestamp |-> timestamp])
         IN  logCommunication(m1, "Information", "Position_Update")

\* a faulty handleNotification: the gate of handleRegularMessage is applied
handleNotificationGated(m, sessionMsg) ==
    IF ~m.conn.authenticated /\ ~isBypassHMAC(sessionMsg.hmac)
    THEN logCommunication(m, "Warning", "Unauthenticated_Message")
    ELSE IF Len(sessionMsg.payload) < 1 THEN m
    ELSE CASE sessionMsg.payload[1] = NT_DEVICE_STATUS ->
                  handleDeviceStatusNotification(m, SliceFrom(sessionMsg.payload, 1))
           [] sessionMsg.payload[1] = NT_POSITION_UPDATE ->
                  handlePositionUpdateNotification(m, SliceFrom(sessionMsg.payload, 1))
           [] OTHER -> logCommunication(m, "Warning", "Unknown_Notification")

handleNotification(m, sessionMsg) ==
    LET ntPayload == sessionMsg.payload
        notificationType == ntPayload[1]
        notificationData == SliceFrom(ntPayload, 1)
    IN  IF Len(ntPayload) < 1 THEN m
        ELSE CASE notificationType = NT_DEVICE_STATUS ->
                      handleDeviceStatusNotification(m, notificationData)
               [] notificationType = NT_POSITION_UPDATE ->
                      handlePositionUpdateNotification(m, notificationData)
               [] OTHER -> logCommunication(m, "Warning", "Unknown_Notification")

processFrame(m, payload) ==
    LET m1 == [m EXCEPT !.processed = Append(@, payload)]
        sessionMsg == parseSessionMessage(payload)
    IN  IF sessionMsg.err # OK
        THEN logCommunication(m1, "Error", "Message_Parse_Error")
        ELSE CASE sessionMsg.messageType = MT_HELLO -> handleHello(m1, sessionMsg)
               [] sessionMsg.messageType = MT_CLIENT_AUTH -> handleClientAuth(m1, sessionMsg)
               [] sessionMsg.messageType = MT_REGULAR -> handleRegularMessage(m1, sessionMsg)
               [] sessionMsg.messageType = MT_NOTIFICATION -> handleNotification(m1, sessionMsg)
               [] OTHER -> logCommunication(m1, "Warning", "Unknown_Message_Type")

\* a faulty handleDataLoop: a broken frame is logged and left in the buffer
handleDataLoopKeepBuffer(m) ==
    IF Len(m.conn.buffer) > 0
    THEN LET frameResult == parseFrame(m.conn.buffer)
         IN  IF frameResult.err = OK
             THEN processFrame([m EXCEPT !.conn.buffer = SliceFrom(@, frameResult.totalLength)],
                               frameResult.payload)
             ELSE IF frameResult.err = "Incomplete frame"
                  THEN m
                  ELSE logCommunication(m, "Error", "Invalid_Frame")
    ELSE m

RECURSIVE handleDataLoop(_)
\* while (connectionInfo.buffer.length > 0) { try { ... } catch (error) { ... } }
handleDataLoop(m) ==
    IF Len(m.conn.buffer) > 0
    THEN LET frameResult == parseFrame(m.conn.buffer)
         IN  IF frameResult.err = OK
             THEN handleDataLoop(
                      processFrame([m EXCEPT !.conn.buffer = SliceFrom(@, frameResult.totalLength)],
                                   frameResult.payload))
             ELSE IF frameResult.err = "Incomplete frame"
                  THEN m
                  ELSE [logCommunication(m, "Error", "Invalid_Frame")
                            EXCEPT !.conn.buffer = <<>>]
    ELSE m

\* a faulty handleData: one frame is processed for each data event
handleDataOneFrame(m, data) ==
    LET m1 == [m EXCEPT !.conn.buffer = @ \o data]
        frameResult == parseFrame(m1.conn.buffer)
    IN  IF frameResult.err = OK
        THEN processFrame([m1 EXCEPT !.conn.buffer = SliceFrom(@, frameResult.totalLength)],
                          frameResult.payload)
        ELSE IF frameResult.err = "Incomplete frame"
             THEN m1
             ELSE [logCommunication(m1, "Error", "Invalid_Frame") EXCEPT !.conn.buffer = <<>>]

handleData(m, data) ==
    handleDataLoop([m EXCEPT !.conn.buffer = @ \o data])

-----------------------------------------------------------------------------
(* What a client can send.                                                 *)

\* the tag a client that sent clientPublicKey in HELLO and received
\* serverPublicKey and nonce in CHALLENGE puts into CLIENT_AUTH
ExpectedAuthC(clientPublicKey, serverPublicKey, nonce) ==
    calculateMAC(PSK, U32BE(clientPublicKey) \o U32BE(serverPublicKey) \o U64BE(nonce))

\* every tag that is right for some HELLO/CHALLENGE exchange of the model, and
\* the tag of an all-zero block (the PSK itself)
AuthCChoices ==
    {ExpectedAuthC(k, PublicKey(s), n) : k \in ClientPublicKeys, s \in ServerSecrets, n \in Nonces}
        \cup {PSK}

IINChoices == {0, 4660, 65535}

\* one request for each response code, with every IIN
AppMessages ==
    {createCommand(CMD_HEARTBEAT, <<>>), createCommand(CMD_CONTROL_DEVICE, <<ACTION_START>>),
     createCommand(CMD_CONTROL_DEVICE, <<>>), createCommand(CMD_ACK_ERROR, <<>>),
     createCommand(CMD_RESET_BLADE_TIME, <<>>)}

\* the other requests, with one IIN
MoreAppMessages ==
    {createCommand(CMD_HEARTBEAT, <<222, 173>>), createCommand(7, <<>>)}
        \cup {createCommand(CMD_CONTROL_DEVICE, <<a>>) : a \in {ACTION_STOP, ACTION_HOME, 5}}

\* presentation messages with a command, and three that are too short for one
RegularBodies ==
    {createPresentationMessage(iin, app) : iin \in IINChoices, app \in AppMessages}
        \cup {createPresentationMessage(258, app) : app \in MoreAppMessages}
        \cup {<<>>, <<1>>, <<0, 1>>}

\* every body under the bypass HMAC, three of them under another HMAC
RegularMessages ==
    {createSessionMessage(MT_REGULAR, body, getBypassHMAC) : body \in RegularBodies}
        \cup {createSessionMessage(MT_REGULAR, body, <<0, 0, 0, 0>>) :
                 body \in {createPresentationMessage(4660, createCommand(CMD_HEARTBEAT, <<>>)),
                           createPresentationMessage(258, createCommand(CMD_CONTROL_DEVICE, <<ACTION_HOME>>)),
                           <<0, 1>>}}

HelloMessages ==
    {createSessionMessage(MT_HELLO, createHelloPayload(k), <<0, 0, 0, 0>>) : k \in ClientPublicKeys}

ClientAuthMessages ==
    {createSessionMessage(MT_CLIENT_AUTH, createClientAuthPayload(a), <<0, 0, 0, 0>>) : a \in AuthCChoices}
        \cup {createSessionMessage(MT_CLIENT_AUTH, <<1, 2>>, <<0, 0, 0, 0>>)}

\* a DeviceStatus and a PositionUpdate, each whole and cut short, and a type
\* the protocol does not define
NotificationBodies ==
    {<<NT_DEVICE_STATUS, 151, 0, 0, 14, 16, 2>>, <<NT_DEVICE_STATUS, 100, 0, 0>>,
     <<NT_POSITION_UPDATE, 104, 0, 0, 0, 66, 60, 0, 0, 65, 136, 0, 0>>,
     <<NT_POSITION_UPDATE, 104, 0, 0, 0, 66, 60>>, <<7>>}

\* every body under the bypass HMAC, the two whole ones under another HMAC
NotificationMessages ==
    {createSessionMessage(MT_NOTIFICATION, body, getBypassHMAC) : body \in NotificationBodies}
        \cup {createSessionMessage(MT_NOTIFICATION, body, <<0, 0, 0, 0>>) :
                 body \in {<<NT_DEVICE_STATUS, 151, 0, 0, 14, 16, 2>>,
                           <<NT_POSITION_UPDATE, 104, 0, 0, 0, 66, 60, 0, 0, 65, 136, 0, 0>>}}

\* a HELLO too short for a key, a CHALLENGE, a type the protocol does not
\* define, and a payload too short for a session message
OtherMessages ==
    {createSessionMessage(MT_HELLO, <<1, 2>>, <<0, 0, 0, 0>>),
     createSessionMessage(MT_CHALLENGE, <<>>, <<0, 0, 0, 0>>),
     createSessionMessage(7, <<1>>, getBypassHMAC), <<1, 2, 3>>}

ClientMessages ==
    RegularMessages \cup ClientAuthMessages \cup NotificationMessages \cup OtherMessages

\* the frames of the messages, as a client builds them
HelloFrames == {createFrame(payload) : payload \in HelloMessages}

ClientFrames == {createFrame(payload) : payload \in ClientMessages}

\* data that is no frame: a wrong start byte, a wrong checksum, a length of
\* four bytes, and the first two bytes of a frame alone
InvalidData ==
    {<<85, 1, 0, 255, 170>>, <<170, 1, 0, 0, 0>>, <<170, 255, 255, 255, 1, 0, 0>>,
     <<170, 8>>}

RandomChoices ==
    {[serverSecret |-> s, nonce |-> n] : s \in generateRandomSecret, n \in generateNonce}

-----------------------------------------------------------------------------
(* The state of the service and of its environment.                        *)

VARIABLES
    connections,        \* TCPService.connections: connectionId -> connectionInfo
    connectionCounter,  \* TCPService.connectionCounter
    sockets,            \* connectionId -> "open", "destroyed", "errored" or "closed"
    timers,             \* the armed setTimeout callbacks of handleConnection
    now,                \* Date.now(), in ms
    inflight,           \* bytes a client has written that were not delivered yet
    ev,                 \* the last event and what it did
    codec,              \* the last frame built and parsed (codec checks)
    device_states,      \* table device_states: the state of its latest row, "" if none
    client,             \* the LawnmowerTCPClient of the action dispatcher
    toClient,           \* frames the service wrote that the dispatcher has not read yet
    call,               \* the ActionsService call in progress
    servers,            \* TCPService.servers, and startServers / stopServers at work
    exchange,           \* a key agreement computed on its own: secrets, keys, shared secrets
    calls               \* the concurrent calls of ActionsService.executeAction

vars == <<connections, connectionCounter, sockets, timers, now, inflight, ev, codec,
          device_states, client, toClient, call, servers, exchange, calls>>

\* the variables of the action dispatcher
dispatcher == <<client, toClient, call>>

\* connections the model opens, one after the other
MaxConn == 2

Lawnmowers == {1}

\* the rows of lawnmowers with a port_number, in the order of the SELECT
Provisioned ==
    <<[id |-> 1, port_number |-> 9001], [id |-> 2, port_number |-> 9002],
      [id |-> 3, port_number |-> 9003]>>

Ports == {Provisioned[i].port_number : i \in DOMAIN Provisioned}

\* the servers after a start-up that found every port free: listening is the
\* key set of TCPService.servers, busy the ports another process holds,
\* pending the rows startServers has not come to, and stops what stopServers
\* did, in its order
ServersStarted ==
    [listening |-> {Provisioned[1].port_number}, phase |-> "started", pending |-> <<>>,
     busy |-> {}, stops |-> <<>>]

NoOutput ==
    [logs |-> <<>>, wire |-> <<>>, states |-> <<>>, battery |-> <<>>, gps |-> <<>>,
     handled |-> <<>>, processed |-> <<>>, db |-> TRUE]

\* the record the handlers of one event run on
Machine(conn, socket, rnd) ==
    [conn |-> conn, socket |-> socket, rnd |-> rnd, logs |-> <<>>, wire |-> <<>>,
     states |-> <<>>, battery |-> <<>>, gps |-> <<>>, handled |-> <<>>,
     processed |-> <<>>, db |-> TRUE]

\* the same while the database rejects every INSERT
MachineSinkDown(conn, socket, rnd) == [Machine(conn, socket, rnd) EXCEPT !.db = FALSE]

\* the event as ev keeps it: its kind, its connection, the connectionInfo
\* (pre) and the socket state before it ([id |-> 0] and "none" when the map
\* has no such connection), the bytes delivered, the time, what the
\* handlers did, whether the database took the rows (db) and whether it took
\* those of the event before (prev)
Event(kind, id, chunk, m) ==
    [kind |-> kind, id |-> id, chunk |-> chunk, at |-> now,
     pre |-> IF id \in DOMAIN connections THEN connections[id] ELSE [id |-> 0],
     device |-> device_states,
     socket |-> IF id \in DOMAIN sockets THEN sockets[id] ELSE "none",
     logs |-> m.logs, wire |-> m.wire, states |-> m.states, battery |-> m.battery,
     gps |-> m.gps, handled |-> m.handled, processed |-> m.processed,
     db |-> m.db, prev |-> IF kind = "init" THEN TRUE ELSE ev.db]

\* new LawnmowerTCPClient(): the fields of the constructor; id is the
\* connection of its socket (0: none), listeners the events a promise waits
\* for, crashed an exception no handler caught, and the rest is what the
\* client did: session types written (sent), frame payloads handled
\* (received), responses handed to a pending call (replies), and its last
\* 'data' event (last)
NewClient ==
    [connected |-> FALSE, authenticated |-> FALSE, sharedSecret |-> NULL, iinCounter |-> 1,
     clientSecret |-> NULL, clientPublicKey |-> NULL, serverPublicKey |-> NULL,
     nonce |-> NULL, id |-> 0, listeners |-> {}, crashed |-> FALSE, sent |-> <<>>,
     received |-> {}, replies |-> <<>>,
     last |-> [frame |-> <<>>, emitted |-> "none", delivered |-> FALSE, written |-> <<>>]]

\* no call of ActionsService.executeAction or of the client is in progress;
\* a call keeps the rows it wrote to device_states (wrote) and to
\* communication_logs (logged), the heartbeats it sent and the latest row of
\* device_states when it began (latest)
NoCall ==
    [kind |-> "none", phase |-> "idle", action |-> "", currentState |-> "",
     error |-> "", newState |-> "", wrote |-> <<>>, logged |-> <<>>, heartbeats |-> 0,
     latest |-> ""]

\* the calls of executeAction that run at a time
CallIds == {1, 2}

\* a call of executeAction among others: where it is (phase), the state it
\* read, the state it wrote, and the latest row of device_states that is not
\* of its own TCP command (latest)
NoConcurrentCall ==
    [phase |-> "idle", action |-> "", currentState |-> "", newState |-> "",
     latest |-> "", error |-> "", logged |-> <<>>]

NoCalls == [c \in CallIds |-> NoConcurrentCall]

NoCodec == [payload |-> <<>>, tail |-> <<>>, frame |-> <<>>, result |-> FrameError("none")]

Init ==
    /\ connections = <<>>
    /\ connectionCounter = 0
    /\ sockets = <<>>
    /\ timers = {}
    /\ now = 0
    /\ inflight = <<>>
    /\ device_states = ""
    /\ ev = Event("init", 0, <<>>, NoOutput)
    /\ codec = NoCodec
    /\ client = NewClient
    /\ toClient = <<>>
    /\ call = NoCall
    /\ servers = ServersStarted
    /\ exchange = NoExchange
    /\ calls = NoCalls

\* setTimeout(..., TIMEOUT_CONNECTION) of connection id; initial tells the
\* timer of handleConnection (connectionTimeout) from those of the 'data'
\* listener (newTimeout).  Timers of one connection armed for the same instant
\* are kept once: they fire together and a second destroy() changes nothing.
Timeout(id, initial) ==
    [id |-> id, deadline |-> now + TIMEOUT_CONNECTION, initial |-> initial]

\* clearTimeout(connectionTimeout)
clearConnectionTimeout(id) == {t \in timers : ~(t.id = id /\ t.initial)}

Delete(id) == [i \in DOMAIN connections \ {id} |-> connections[i]]

\* handleConnection(socket, lawnmower): the socket is sockets[connectionId]
handleConnectionOf(lawnmower) ==
    LET connectionId == connectionCounter + 1
        connectionInfo ==
            [id |-> connectionId, lawnmower |-> lawnmower, authenticated |-> FALSE,
             sharedSecret |-> NULL, buffer |-> <<>>, lastActivity |-> now,
             authState |-> [serverSecret |-> NULL, clientPublicKey |-> NULL,
                            nonce |-> NULL, serverPublicKey |-> UNDEFINED]]
    IN  /\ connectionCounter' = connectionId
        /\ connections' = (connectionId :> connectionInfo) @@ connections
        /\ sockets' = Append(sockets, "open")
        /\ timers' = timers \cup {Timeout(connectionId, TRUE)}
        /\ ev' = Event("connect", connectionId, <<>>,
                       logCommunication(NoOutput, "Information", "Connection_Attempt"))

\* net.Server 'connection', one live connection at a time
handleConnection ==
    /\ connectionCounter < MaxConn
    /\ \A i \in DOMAIN sockets : sockets[i] = "closed"
    /\ \E lawnmower \in Lawnmowers : handleConnectionOf(lawnmower)

Connect ==
    /\ handleConnection
    /\ UNCHANGED <<calls, now, inflight, codec, servers, exchange, device_states, dispatcher>>

\* a faulty 'data' listener: the outcome of the handshake is kept for the
\* service, every connection takes the flag and the secret of the last event
OnDataDoneShared(id, data, m) ==
    /\ connections' = [c \in DOMAIN connections |->
                          IF c = id THEN m.conn
                          ELSE [connections[c] EXCEPT !.authenticated = m.conn.authenticated,
                                                      !.sharedSecret = m.conn.sharedSecret]]
    /\ sockets' = [sockets EXCEPT ![id] = m.socket]
    /\ timers' = clearConnectionTimeout(id) \cup {Timeout(id, FALSE)}
    /\ ev' = Event("data", id, data, m)
    /\ device_states' = IF m.states = <<>> \/ ~m.db THEN device_states
                        ELSE m.states[Len(m.states)]

\* socket 'data' listener of handleConnection, with what handleData does
OnDataDone(id, data, m) ==
    /\ connections' = [connections EXCEPT ![id] = m.conn]
    /\ sockets' = [sockets EXCEPT ![id] = m.socket]
    /\ timers' = clearConnectionTimeout(id) \cup {Timeout(id, FALSE)}
    /\ ev' = Event("data", id, data, m)
    /\ device_states' = IF m.states = <<>> \/ ~m.db THEN device_states
                        ELSE m.states[Len(m.states)]

OnData(id, data, rnd) ==
    /\ id \in DOMAIN connections
    /\ sockets[id] = "open"
    /\ OnDataDone(id, data,
                  handleData(Machine([connections[id] EXCEPT !.lastActivity = now],
                                     sockets[id], rnd), data))
    /\ UNCHANGED <<calls, connectionCounter, now, codec, servers, exchange, dispatcher>>

\* a whole frame arrives in one data event; the server draws a secret and a
\* nonce when the frame is a HELLO
ReceiveHello(id) ==
    /\ \E frame \in HelloFrames, rnd \in RandomChoices : OnData(id, frame, rnd)
    /\ UNCHANGED inflight

Receive(id) ==
    /\ \E frame \in ClientFrames :
          OnData(id, frame, CHOOSE rnd \in RandomChoices : TRUE)
    /\ UNCHANGED inflight

ReceiveInvalid(id) ==
    /\ \E data \in InvalidData :
          OnData(id, data, CHOOSE rnd \in RandomChoices : TRUE)
    /\ UNCHANGED inflight

\* socket 'close' listener: the peer closed, or the socket was destroyed
SocketClose(id) ==
    /\ id \in DOMAIN sockets
    /\ sockets[id] # "closed"
    /\ timers' = clearConnectionTimeout(id)
    /\ connections' = Delete(id)
    /\ sockets' = [sockets EXCEPT ![id] = "closed"]
    /\ inflight' = <<>>
    /\ ev' = Event("close", id, <<>>,
                   logCommunication(NoOutput, "Information", "Connection_Closed"))
    /\ UNCHANGED <<calls, connectionCounter, now, codec, servers, exchange, device_states, dispatcher>>

\* socket 'error' listener; the socket is destroyed and 'close' follows
SocketError(id) ==
    /\ id \in DOMAIN connections
    /\ sockets[id] = "open"
    /\ timers' = clearConnectionTimeout(id)
    /\ connections' = Delete(id)
    /\ sockets' = [sockets EXCEPT ![id] = "errored"]
    /\ ev' = Event("error", id, <<>>,
                   logCommunication(NoOutput, "Error", "Connection_Error"))
    /\ UNCHANGED <<calls, connectionCounter, now, inflight, codec, servers, exchange, device_states, dispatcher>>

Next ==
    \/ Connect
    \/ \E id \in DOMAIN sockets : ReceiveHello(id)
    \/ \E id \in DOMAIN sockets : Receive(id)
    \/ \E id \in DOMAIN sockets : ReceiveInvalid(id)
    \/ \E id \in DOMAIN sockets : SocketClose(id)
    \/ \E id \in DOMAIN sockets : SocketError(id)

Spec == Init /\ [][Next]_vars

-----------------------------------------------------------------------------
(* Delivery in pieces: the client writes frames, TCP delivers any prefix   *)
(* of what was written as one data event.                                  *)

\* two heartbeats with different IINs under the bypass HMAC
StreamMessages ==
    {createSessionMessage(MT_REGULAR, createPresentationMessage(1, createCommand(CMD_HEARTBEAT, <<>>)), getBypassHMAC),
     createSessionMessage(MT_REGULAR, createPresentationMessage(2, createCommand(CMD_HEARTBEAT, <<7>>)), getBypassHMAC)}

StreamFrames == {createFrame(payload) : payload \in StreamMessages}

\* bytes a client writes at once
MaxInflight == 25

RECURSIVE Concat(_)
Concat(frames) == IF frames = <<>> THEN <<>> ELSE Head(frames) \o Concat(Tail(frames))

RECURSIVE Batches(_)
\* the sequences of frames of at most limit bytes
Batches(limit) ==
    {<<>>} \cup UNION {{<<frame>> \o b : b \in Batches(limit - Len(frame))} :
                         frame \in {f \in StreamFrames : Len(f) <= limit}}

StreamBatches == Batches(MaxInflight) \ {<<>>}

\* the client writes some frames once all it wrote before was delivered
ClientWrite(id) ==
    /\ id \in DOMAIN connections
    /\ sockets[id] = "open"
    /\ inflight = <<>>
    /\ \E batch \in StreamBatches : inflight' = Concat(batch)
    /\ UNCHANGED <<calls, connections, connectionCounter, sockets, timers, now, ev, codec, servers, exchange,
                   device_states, dispatcher>>

Deliver(id) ==
    \E n \in 1..Len(inflight) :
        /\ OnData(id, Slice(inflight, 0, n), CHOOSE rnd \in RandomChoices : TRUE)
        /\ inflight' = SliceFrom(inflight, n)

NextStream ==
    \/ Connect
    \/ \E id \in DOMAIN sockets : ClientWrite(id)
    \/ \E id \in DOMAIN sockets : Deliver(id)
    \/ \E id \in DOMAIN sockets : SocketClose(id)

SpecStream == Init /\ [][NextStream]_vars

-----------------------------------------------------------------------------
(* Time: the inactivity timers of handleConnection.                        *)

\* the clock stops here
MaxTime == 4000

\* the longest step of the clock
TickStep == 1000

Min(S) == CHOOSE x \in S : \A y \in S : x <= y

\* time passes, up to the next instant a timer is armed for; a timer that is
\* due fires before time moves on
Tick ==
    /\ now < MaxTime
    /\ \A t \in timers : t.deadline > now
    /\ now' = Min({now + TickStep} \cup {t.deadline : t \in timers})
    /\ UNCHANGED <<calls, connections, connectionCounter, sockets, timers, inflight, ev, codec, servers, exchange,
                   device_states, dispatcher>>

\* the callback of setTimeout: logs Connection_Timeout, socket.destroy()
TimerFire ==
    \E t \in timers :
        /\ t.deadline <= now
        /\ timers' = timers \ {t}
        /\ sockets' = [sockets EXCEPT ![t.id] = IF @ = "open" THEN "destroyed" ELSE @]
        /\ ev' = Event("timeout", t.id, <<>>,
                       logCommunication(NoOutput, "Warning", "Connection_Timeout"))
        /\ UNCHANGED <<calls, connections, connectionCounter, now, inflight, codec, servers, exchange,
                       device_states, dispatcher>>

\* a heartbeat under the bypass HMAC arrives
ReceiveHeartbeat(id) ==
    /\ OnData(id, createFrame(createSessionMessage(MT_REGULAR,
                      createPresentationMessage(1, createCommand(CMD_HEARTBEAT, <<>>)),
                      getBypassHMAC)),
              CHOOSE rnd \in RandomChoices : TRUE)
    /\ UNCHANGED inflight

NextTimer ==
    \/ Connect
    \/ \E id \in DOMAIN sockets : ReceiveHeartbeat(id)
    \/ \E id \in DOMAIN sockets : SocketClose(id)
    \/ \E id \in DOMAIN sockets : SocketError(id)
    \/ Tick
    \/ TimerFire

SpecTimer == Init /\ [][NextTimer]_vars

-----------------------------------------------------------------------------
(* Telemetry: DeviceStatus notifications with every battery byte.          *)

\* battery_half_percent | blade seconds 00 00 04 B0 | state Mowing, under the
\* bypass HMAC
DeviceStatusFrames ==
    {createFrame(createSessionMessage(MT_NOTIFICATION,
                     <<NT_DEVICE_STATUS, battery, 0, 0, 4, 176, 2>>, getBypassHMAC)) :
        battery \in 0..255}

ReceiveDeviceStatus(id) ==
    /\ \E frame \in DeviceStatusFrames :
          OnData(id, frame, CHOOSE rnd \in RandomChoices : TRUE)
    /\ UNCHANGED inflight

NextTelemetry ==
    \/ Connect
    \/ \E id \in DOMAIN sockets : ReceiveDeviceStatus(id)
    \/ \E id \in DOMAIN sockets : SocketClose(id)

SpecTelemetry == Init /\ [][NextTelemetry]_vars

-----------------------------------------------------------------------------
(* The rows of device_states the service writes: a DeviceStatus with a     *)
(* status byte stateMap has and with one it has not, and the commands that *)
(* change the state.                                                       *)

\* the status bytes of stateMap, those next to them and the ends of the range
StatusCodes == (0 .. 5) \cup {127, 128, 129, 255}

\* battery 75.5 % | blade seconds 00 00 04 B0 | status byte, under the bypass
\* HMAC
StatusCodeFrames ==
    {createFrame(createSessionMessage(MT_NOTIFICATION,
                     <<NT_DEVICE_STATUS, 151, 0, 0, 4, 176, status>>, getBypassHMAC)) :
        status \in StatusCodes}

\* the commands of actionToCommandMap, under the bypass HMAC
StateCommandFrames ==
    {createFrame(createSessionMessage(MT_REGULAR, createPresentationMessage(4660, app),
                                      getBypassHMAC)) :
        app \in {createCommand(CMD_CONTROL_DEVICE, <<ACTION_STOP>>),
                 createCommand(CMD_CONTROL_DEVICE, <<ACTION_START>>),
                 createCommand(CMD_CONTROL_DEVICE, <<ACTION_HOME>>),
                 createCommand(CMD_ACK_ERROR, <<>>)}}

ReceiveStatusCode(id) ==
    /\ \E frame \in StatusCodeFrames :
          OnData(id, frame, CHOOSE rnd \in RandomChoices : TRUE)
    /\ UNCHANGED inflight

ReceiveStateCommand(id) ==
    /\ \E frame \in StateCommandFrames :
          OnData(id, frame, CHOOSE rnd \in RandomChoices : TRUE)
    /\ UNCHANGED inflight

NextStates ==
    \/ Connect
    \/ \E id \in DOMAIN sockets : ReceiveStatusCode(id)
    \/ \E id \in DOMAIN sockets : ReceiveStateCommand(id)
    \/ \E id \in DOMAIN sockets : SocketClose(id)

SpecStates == Init /\ [][NextStates]_vars

-----------------------------------------------------------------------------
(* The database fails: during some data events every INSERT is rejected.   *)

\* the handshakes of one client key, and the requests and notifications that
\* write rows
SinkMessages ==
    {createSessionMessage(MT_HELLO,
                          createHelloPayload(CHOOSE k \in ClientPublicKeys : TRUE),
                          <<0, 0, 0, 0>>)}
        \cup ClientAuthMessages
        \cup {createSessionMessage(MT_REGULAR, createPresentationMessage(4660, app),
                                   getBypassHMAC) :
                 app \in {createCommand(CMD_HEARTBEAT, <<222, 173>>),
                          createCommand(CMD_CONTROL_DEVICE, <<ACTION_START>>),
                          createCommand(CMD_CONTROL_DEVICE, <<ACTION_HOME>>),
                          createCommand(CMD_ACK_ERROR, <<>>)}}
        \cup {createSessionMessage(MT_NOTIFICATION, body, getBypassHMAC) :
                 body \in {<<NT_DEVICE_STATUS, 151, 0, 0, 14, 16, 4>>,
                           <<NT_POSITION_UPDATE, 104, 0, 0, 0, 66, 60, 0, 0, 65, 136, 0, 0>>}}

SinkFrames == {createFrame(payload) : payload \in SinkMessages}

\* a frame arrives while the database takes the rows
ReceiveSinkUp(id) ==
    /\ \E frame \in SinkFrames : OnData(id, frame, CHOOSE rnd \in RandomChoices : TRUE)
    /\ UNCHANGED inflight

\* a frame arrives while the database rejects them
ReceiveSinkDown(id) ==
    /\ id \in DOMAIN connections
    /\ sockets[id] = "open"
    /\ \E frame \in SinkFrames :
          OnDataDone(id, frame,
                     handleData(MachineSinkDown([connections[id] EXCEPT !.lastActivity = now],
                                                sockets[id],
                                                CHOOSE rnd \in RandomChoices : TRUE), frame))
    /\ UNCHANGED <<calls, connectionCounter, now, inflight, codec, servers, exchange, dispatcher>>

NextSink ==
    \/ Connect
    \/ \E id \in DOMAIN sockets : ReceiveSinkUp(id)
    \/ \E id \in DOMAIN sockets : ReceiveSinkDown(id)
    \/ \E id \in DOMAIN sockets : SocketClose(id)

SpecSink == Init /\ [][NextSink]_vars

-----------------------------------------------------------------------------
(* Start-up and shut-down: startServers binds a listener for each row,     *)
(* devices connect to the listeners, stopServers ends it all.  Several     *)
(* connections are live at once here.                                      *)

\* nothing was started yet; some ports are held by another process
InitLifecycle ==
    /\ connections = <<>>
    /\ connectionCounter = 0
    /\ sockets = <<>>
    /\ timers = {}
    /\ now = 0
    /\ inflight = <<>>
    /\ device_states = ""
    /\ ev = Event("init", 0, <<>>, NoOutput)
    /\ codec = NoCodec
    /\ client = NewClient
    /\ toClient = <<>>
    /\ call = NoCall
    /\ \E busy \in SUBSET Ports :
          servers = [listening |-> {}, phase |-> "idle", pending |-> <<>>, busy |-> busy,
                     stops |-> <<>>]
    /\ exchange = NoExchange
    /\ calls = NoCalls

\* what becomes of an 'error' event that has no listener: the exception ends
\* the process, or a process-wide handler outside this service absorbs it
ListenFailureOutcomes == {"crashed", "hung"}

\* startServers up to its loop: the rows are read
StartServers ==
    /\ servers.phase \in {"idle", "started", "stopped"}
    /\ servers' = [servers EXCEPT !.phase = "starting", !.pending = Provisioned]
    /\ UNCHANGED <<calls, connections, connectionCounter, sockets, timers, now, inflight, ev, codec, exchange,
                   device_states, dispatcher>>

\* startServerForLawnmower for the next row, and the loop of startServers.
\* listen(port, callback) registers callback for 'listening' only; a bind
\* that fails emits 'error' on a server without an 'error' listener, so the
\* error is thrown as an uncaught exception and the promise is never
\* settled: the process ends, or, where a process-wide handler absorbs the
\* exception, startServers waits forever
startServerForLawnmower(lawnmower, outcome) ==
    IF lawnmower.port_number \in servers.listening
    THEN [servers EXCEPT !.pending = Tail(@),
                         !.phase = IF Len(servers.pending) = 1 THEN "started" ELSE @]
    ELSE IF lawnmower.port_number \notin servers.busy
    THEN [servers EXCEPT !.listening = @ \cup {lawnmower.port_number},
                         !.pending = Tail(@),
                         !.phase = IF Len(servers.pending) = 1 THEN "started" ELSE @]
    ELSE [servers EXCEPT !.phase = outcome]

StartNext ==
    /\ servers.phase = "starting"
    /\ servers.pending # <<>>
    /\ \E outcome \in ListenFailureOutcomes :
          servers' = startServerForLawnmower(Head(servers.pending), outcome)
    /\ UNCHANGED <<calls, connections, connectionCounter, sockets, timers, now, inflight, ev, codec, exchange,
                   device_states, dispatcher>>

\* net.Server 'connection' on a listener that is bound
DeviceConnects ==
    /\ servers.phase # "crashed"
    /\ connectionCounter < MaxConn
    /\ \E i \in DOMAIN Provisioned :
          /\ Provisioned[i].port_number \in servers.listening
          /\ handleConnectionOf(Provisioned[i].id)
    /\ UNCHANGED <<calls, now, inflight, codec, device_states, dispatcher, servers, exchange>>

RECURSIVE SetToSeq(_)
\* a Map is iterated in the order of insertion: ascending ids, ports as bound
SetToSeq(S) ==
    IF S = {} THEN <<>>
    ELSE LET x == CHOOSE y \in S : \A z \in S : y <= z
         IN  <<x>> \o SetToSeq(S \ {x})

\* a faulty stopServers: the listeners are closed first
stopServersListenersFirst(ids, ports) ==
    [i \in 1..Cardinality(ports) |-> <<"close", SetToSeq(ports)[i]>>]
        \o [i \in 1..Cardinality(ids) |-> <<"destroy", SetToSeq(ids)[i]>>]

\* stopServers: socket.destroy() for each connection, then server.close()
\* for each server
stopServers(ids, ports) ==
    [i \in 1..Cardinality(ids) |-> <<"destroy", SetToSeq(ids)[i]>>]
        \o [i \in 1..Cardinality(ports) |-> <<"close", SetToSeq(ports)[i]>>]

StopServers ==
    /\ servers.phase = "started"
    /\ sockets' = [i \in DOMAIN sockets |->
                     IF i \in DOMAIN connections /\ sockets[i] = "open"
                     THEN "destroyed" ELSE sockets[i]]
    /\ connections' = <<>>
    /\ servers' = [servers EXCEPT !.listening = {}, !.phase = "stopped",
                                  !.stops = stopServers(DOMAIN connections, servers.listening)]
    /\ ev' = Event("stop", 0, <<>>, NoOutput)
    /\ UNCHANGED <<calls, connectionCounter, timers, now, inflight, codec, exchange, device_states,
                   dispatcher>>

NextLifecycle ==
    \/ StartServers
    \/ StartNext
    \/ DeviceConnects
    \/ \E id \in DOMAIN sockets : ReceiveHeartbeat(id)
    \/ \E id \in DOMAIN sockets : SocketClose(id)
    \/ StopServers

SpecLifecycle == InitLifecycle /\ [][NextLifecycle]_vars

-----------------------------------------------------------------------------
(* Two connections at a time to the listener of one device: one is        *)
(* accepted while another is open, and each receives handshake messages,   *)
(* commands and bytes that are no frame.                                   *)

\* the draws of the service for a HELLO: either secret, one nonce
PairRandom == {rnd \in RandomChoices : rnd.nonce = CHOOSE n \in Nonces : TRUE}

\* CLIENT_AUTH with the tag that is right after one of these draws, and with
\* the PSK as its tag
PairAuthMessages ==
    {createSessionMessage(MT_CLIENT_AUTH, createClientAuthPayload(a), <<0, 0, 0, 0>>) :
        a \in {ExpectedAuthC(k, PublicKey(rnd.serverSecret), rnd.nonce) :
                  k \in ClientPublicKeys, rnd \in PairRandom} \cup {PSK}}

\* these, a heartbeat under an HMAC that is not the bypass constant and one
\* under it, and bytes without a SOF marker
PairFrames ==
    {createFrame(payload) : payload \in PairAuthMessages}
        \cup {createFrame(createSessionMessage(MT_REGULAR,
                  createPresentationMessage(4660, createCommand(CMD_HEARTBEAT, <<>>)), hmac)) :
                 hmac \in {<<0, 0, 0, 0>>, getBypassHMAC}}
        \cup {<<85, 1, 0, 255, 170>>}

\* net.Server 'connection' while at most one other connection is open
Accept ==
    /\ connectionCounter < MaxConn
    /\ Cardinality({id \in DOMAIN sockets : sockets[id] = "open"}) <= 1
    /\ \E lawnmower \in Lawnmowers : handleConnectionOf(lawnmower)
    /\ UNCHANGED <<calls, now, inflight, codec, servers, exchange, device_states, dispatcher>>

ReceivePairHello(id) ==
    /\ \E frame \in HelloFrames, rnd \in PairRandom : OnData(id, frame, rnd)
    /\ UNCHANGED inflight

ReceivePair(id) ==
    /\ \E frame \in PairFrames :
          OnData(id, frame, CHOOSE rnd \in RandomChoices : TRUE)
    /\ UNCHANGED inflight

NextPair ==
    \/ Accept
    \/ \E id \in DOMAIN sockets : ReceivePairHello(id)
    \/ \E id \in DOMAIN sockets : ReceivePair(id)
    \/ \E id \in DOMAIN sockets : SocketClose(id)

SpecPair == Init /\ [][NextPair]_vars

-----------------------------------------------------------------------------
(* The frame codec on its own: a payload is framed, bytes of a later frame *)
(* follow it, and the result is parsed.                                    *)

\* the longest of the short payloads
MaxPayloadLen == 2

RECURSIVE SeqsUpTo(_, _)
SeqsUpTo(S, n) ==
    IF n = 0 THEN {<<>>}
    ELSE LET shorter == SeqsUpTo(S, n - 1)
         IN  shorter \cup {Append(q, x) : q \in shorter, x \in S}

\* every short payload over three bytes, and payloads at the lengths where the
\* length field grows: 127/128 and 16383/16384
CodecPayloads ==
    SeqsUpTo({0, 170, 255}, MaxPayloadLen)
        \cup {[i \in 1..n |-> (7 * i) % 256] : n \in {127, 128, 16383, 16384}}

CodecTails == {<<>>, <<170>>, <<0, 255>>, <<170, 1, 7, 255, 78>>}

\* the longest payload a length field of three bytes can announce: 2^21 - 1
LongestPayload == [i \in 1..(Pow2(21) - 1) |-> (7 * i) % 256]

InitCodec ==
    /\ connections = <<>>
    /\ connectionCounter = 0
    /\ sockets = <<>>
    /\ timers = {}
    /\ now = 0
    /\ inflight = <<>>
    /\ device_states = ""
    /\ ev = Event("init", 0, <<>>, NoOutput)
    /\ client = NewClient
    /\ toClient = <<>>
    /\ call = NoCall
    /\ servers = ServersStarted
    /\ exchange = NoExchange
    /\ calls = NoCalls
    /\ \/ \E payload \in CodecPayloads, tail \in CodecTails :
             codec = [NoCodec EXCEPT !.payload = payload, !.tail = tail]
       \/ codec = [NoCodec EXCEPT !.payload = LongestPayload, !.tail = <<170, 1>>]

Encode ==
    /\ codec.frame = <<>>
    /\ codec' = [codec EXCEPT !.frame = createFrame(codec.payload)]
    /\ UNCHANGED <<calls, connections, connectionCounter, sockets, timers, now, inflight, ev, servers, exchange,
                   device_states, dispatcher>>

Decode ==
    /\ codec.frame # <<>>
    /\ codec.result.err = "none"
    /\ codec' = [codec EXCEPT !.result = parseFrame(codec.frame \o codec.tail)]
    /\ UNCHANGED <<calls, connections, connectionCounter, sockets, timers, now, inflight, ev, servers, exchange,
                   device_states, dispatcher>>

NextCodec == Encode \/ Decode

SpecCodec == InitCodec /\ [][NextCodec]_vars

-----------------------------------------------------------------------------
(* The codec and a damaged frame: a payload is framed, one byte of the     *)
(* payload in the frame is changed, and the result is parsed.              *)

\* the short payloads, and one whose length field has two bytes
DamagePayloads ==
    (SeqsUpTo({0, 170, 255}, MaxPayloadLen) \ {<<>>})
        \cup {[i \in 1..128 |-> (7 * i) % 256]}

\* what a byte of the payload becomes: any other value in a short payload,
\* its neighbours and its opposite in a long one
DamagedValues(payload, old) ==
    IF Len(payload) <= MaxPayloadLen THEN (0..255) \ {old}
    ELSE {(old + 1) % 256, (old + 255) % 256, (old + 128) % 256}

\* the position in the frame of byte i of its payload
PayloadOffset(payload, i) == 1 + Len(encodeLength(Len(payload))) + i

InitDamage ==
    /\ connections = <<>>
    /\ connectionCounter = 0
    /\ sockets = <<>>
    /\ timers = {}
    /\ now = 0
    /\ inflight = <<>>
    /\ device_states = ""
    /\ ev = Event("init", 0, <<>>, NoOutput)
    /\ client = NewClient
    /\ toClient = <<>>
    /\ call = NoCall
    /\ servers = ServersStarted
    /\ exchange = NoExchange
    /\ calls = NoCalls
    /\ \E payload \in DamagePayloads, tail \in {<<>>, <<170, 1, 7, 255, 78>>} :
          codec = [NoCodec EXCEPT !.payload = payload, !.tail = tail]

\* one byte of the payload of the frame is changed
Damage ==
    /\ codec.frame = createFrame(codec.payload)
    /\ codec.result.err = "none"
    /\ \E i \in DOMAIN codec.payload :
          \E value \in DamagedValues(codec.payload, codec.payload[i]) :
             codec' = [codec EXCEPT !.frame[PayloadOffset(codec.payload, i)] = value]
    /\ UNCHANGED <<calls, connections, connectionCounter, sockets, timers, now, inflight, ev, servers, exchange,
                   device_states, dispatcher>>

NextDamage == Encode \/ Damage \/ Decode

SpecDamage == InitDamage /\ [][NextDamage]_vars

-----------------------------------------------------------------------------
(* The codec at the end of its range.  A payload of a drawn length is      *)
(* framed and the frame is parsed; the state keeps the length field of the *)
(* frame, its length and the outcome, not the bytes.                       *)

\* the longest of the payloads of every length
MaxFramedLen == 50

\* every short length, the lengths where the length field grows, and the one
\* that is a byte more than a length field of three bytes can announce
FramedLengths ==
    (0..MaxFramedLen) \cup {127, 128, 16383, 16384, Pow2(21) - 1, Pow2(21)}

\* the payload of a length
PayloadOf(n) == [i \in 1..n |-> (7 * i) % 256]

\* what is kept of createFrame(payload): whether a frame came back, the bytes
\* between the SOF marker and the payload, the length of the frame
Framed(n, frame) ==
    [length |-> n, step |-> "framed", returned |-> frame # <<>>,
     lengthField |-> Slice(frame, 1, Len(frame) - n - 2), frameLength |-> Len(frame),
     err |-> "none"]

InitFraming ==
    /\ connections = <<>>
    /\ connectionCounter = 0
    /\ sockets = <<>>
    /\ timers = {}
    /\ now = 0
    /\ inflight = <<>>
    /\ device_states = ""
    /\ ev = Event("init", 0, <<>>, NoOutput)
    /\ client = NewClient
    /\ toClient = <<>>
    /\ call = NoCall
    /\ servers = ServersStarted
    /\ exchange = NoExchange
    /\ calls = NoCalls
    /\ \E n \in FramedLengths :
          codec = [length |-> n, step |-> "drawn", returned |-> FALSE, lengthField |-> <<>>,
                   frameLength |-> 0, err |-> "none"]

\* createFrame(payload)
Frame ==
    /\ codec.step = "drawn"
    /\ codec' = Framed(codec.length, createFrame(PayloadOf(codec.length)))
    /\ UNCHANGED <<calls, connections, connectionCounter, sockets, timers, now, inflight, ev, servers, exchange,
                   device_states, dispatcher>>

\* parseFrame of what createFrame returned
Parse ==
    /\ codec.step = "framed"
    /\ codec' = [codec EXCEPT !.step = "parsed",
                              !.err = parseFrame(createFrame(PayloadOf(codec.length))).err]
    /\ UNCHANGED <<calls, connections, connectionCounter, sockets, timers, now, inflight, ev, servers, exchange,
                   device_states, dispatcher>>

NextFraming == Frame \/ Parse

SpecFraming == InitFraming /\ [][NextFraming]_vars

-----------------------------------------------------------------------------
(* The action dispatcher: ActionsService (actionsService.js) and the       *)
(* LawnmowerTCPClient it sends commands with (lawnmowerTCPClient.js).      *)

\* ActionsService.validActions
ValidActions == {"stop", "start", "home", "ackerror"}

\* the states a row of device_states can hold: those of stateMap and the
\* 'Unknown' it falls back to
DeviceStates ==
    {"StationCharging", "StationChargingCompleted", "Mowing", "ReturningToStation",
     "Paused", "Error", "Unknown"}

\* actionToCommandMap[action]; the action byte is a buffer of one byte, and
\* the null of 'ackerror' the empty buffer
actionToCommandMap(action) ==
    CASE action = "stop" -> [command |-> 1, action |-> <<0>>]
      [] action = "start" -> [command |-> 1, action |-> <<1>>]
      [] action = "home" -> [command |-> 1, action |-> <<2>>]
      [] action = "ackerror" -> [command |-> 2, action |-> <<>>]

\* SELECT state ... ORDER BY timestamp DESC LIMIT 1, with the default state
getCurrentState(table) == IF table = "" THEN "StationChargingCompleted" ELSE table

\* a faulty validateActionForState: every action is valid in every state
validateAnyAction(action, currentState) == action \in ValidActions

validateActionForState(action, currentState) ==
    LET allowedActions ==
            CASE currentState = "StationCharging" -> {"start"}
              [] currentState = "StationChargingCompleted" -> {"start"}
              [] currentState = "Mowing" -> {"stop", "home"}
              [] currentState = "ReturningToStation" -> {"stop"}
              [] currentState = "Paused" -> {"start", "home"}
              [] currentState = "Error" -> {"ackerror"}
              [] OTHER -> {}
    IN  action \in allowedActions

\* a faulty getExpectedStateForAction: 'stop' leads back to the station
getExpectedStateStopHome(action, currentState) ==
    IF action = "stop" THEN "ReturningToStation" ELSE "Mowing"

\* stateTransitions[action]?.[currentState] || null, with "" for null
getExpectedStateForAction(action, currentState) ==
    CASE action = "stop" /\ currentState \in {"Mowing", "ReturningToStation"} -> "Paused"
      [] action = "start" /\ currentState \in {"StationCharging", "StationChargingCompleted",
                                               "Paused"} -> "Mowing"
      [] action = "home" /\ currentState \in {"Mowing", "Paused"} -> "ReturningToStation"
      [] action = "ackerror" /\ currentState = "Error" -> "Paused"
      [] OTHER -> ""

\* LawnmowerTCPClient.calculateSharedSecret for the keys of the model
ClientSharedSecretMemo ==
    {<<PublicKey(s), c, calculateSharedSecret(PublicKey(s), c)>> :
        s \in ServerSecrets, c \in ClientSecrets}

ClientSharedSecret(otherPublicKey, mySecret) ==
    IF \E e \in ClientSharedSecretMemo : e[1] = otherPublicKey /\ e[2] = mySecret
    THEN (CHOOSE e \in ClientSharedSecretMemo : e[1] = otherPublicKey /\ e[2] = mySecret)[3]
    ELSE calculateSharedSecret(otherPublicKey, mySecret)

\* LawnmowerTCPClient.calculateAuth
calculateAuth(keyA, keyB, nonce) ==
    calculateMAC(PSK, U32BE(keyA) \o U32BE(keyB) \o U64BE(nonce))

\* LawnmowerTCPClient.calculateHMAC: the MAC as a buffer of four bytes
clientCalculateHMAC(key, payload) == U32BE(calculateMAC(key, payload))

\* LawnmowerTCPClient.createSessionMessage: no HMAC means 00 00 00 00
clientCreateSessionMessage(messageType, payload, hmac) ==
    (IF hmac = NULL THEN <<0, 0, 0, 0>> ELSE hmac) \o <<messageType>> \o payload

RECURSIVE clientDecodeLengthLoop(_, _, _, _)
\* LawnmowerTCPClient.decodeLength: no limit on the bytes of a length (the
\* lengths of the model stay below 2^31, where << does not wrap)
clientDecodeLengthLoop(buffer, length, offset, shift) ==
    IF offset < Len(buffer)
    THEN LET byte == buffer[offset + 1]
         IN  IF byte < 128
             THEN [length |-> length + (byte % 128) * Pow2(shift), offset |-> offset + 1]
             ELSE clientDecodeLengthLoop(buffer, length + (byte % 128) * Pow2(shift),
                                         offset + 1, shift + 7)
    ELSE [length |-> length, offset |-> offset]

clientParseFrameAt(buffer, lengthResult) ==
    IF Len(buffer) < lengthResult.offset + lengthResult.length + 2
    THEN [err |-> "Frame too short for declared length and checksum", payload |-> <<>>]
    ELSE [err |-> OK,
          payload |-> Slice(buffer, lengthResult.offset,
                            lengthResult.offset + lengthResult.length)]

\* LawnmowerTCPClient.parseFrame: a checksum mismatch is only a warning
clientParseFrame(buffer) ==
    IF Len(buffer) = 0 \/ buffer[1] # SOF_MARKER
    THEN [err |-> "Invalid SOF marker", payload |-> <<>>]
    ELSE clientParseFrameAt(buffer, clientDecodeLengthLoop(buffer, 0, 1, 0))

\* LawnmowerTCPClient.parseSessionMessage: no length check, buffer[4] of a
\* short buffer is undefined (-1 here)
clientParseSessionMessage(buffer) ==
    [hmac |-> Slice(buffer, 0, 4),
     messageType |-> IF Len(buffer) >= 5 THEN buffer[5] ELSE -1,
     payload |-> SliceFrom(buffer, 5)]

\* this.client.write(frame), a frame of session type messageType
clientWrite(c, messageType, frame) ==
    [c EXCEPT !.last.written = Append(@, frame), !.sent = Append(@, messageType)]

\* this.emit('error', error): the client has no 'error' listener, so emit
\* throws the error; thrown from the catch blocks of handleChallenge and
\* handleData it leaves the 'data' listener as an uncaught exception
clientEmitError(c) ==
    [c EXCEPT !.crashed = TRUE, !.last.emitted = "error"]

\* this.emit('response', sessionMsg): onResponse of the pending call, if any
clientEmitResponse(c, sessionMsg) ==
    IF "response" \in c.listeners
    THEN [c EXCEPT !.listeners = @ \ {"response"}, !.replies = Append(@, sessionMsg),
                   !.last.emitted = "response", !.last.delivered = TRUE]
    ELSE [c EXCEPT !.last.emitted = "response"]

\* this.emit('authenticated'): onAuthComplete of authenticate(), if pending
clientEmitAuthenticated(c) ==
    [c EXCEPT !.listeners = @ \ {"authenticated"}, !.last.emitted = "authenticated",
              !.last.delivered = ("authenticated" \in c.listeners)]

\* handleChallenge after the three reads of the payload
clientVerifyChallenge(c, authS) ==
    IF authS # calculateAuth(c.serverPublicKey, c.clientPublicKey, c.nonce)
    THEN clientEmitError(c)
    ELSE clientEmitAuthenticated(
             [clientWrite(c, MT_CLIENT_AUTH,
                          createFrame(clientCreateSessionMessage(MT_CLIENT_AUTH,
                              U32BE(calculateAuth(c.clientPublicKey, c.serverPublicKey,
                                                  c.nonce)), NULL)))
                 EXCEPT !.sharedSecret = ClientSharedSecret(c.serverPublicKey, c.clientSecret),
                        !.authenticated = TRUE])

\* a faulty handleChallenge: authS is not compared
clientHandleChallengeUnverified(c, payload) ==
    IF Len(payload) < 16 THEN clientEmitError(c)
    ELSE clientVerifyChallenge(
             [c EXCEPT !.serverPublicKey = ReadU32BE(payload, 0),
                       !.nonce = ReadU64BE(payload, 4)],
             calculateAuth(ReadU32BE(payload, 0), c.clientPublicKey, ReadU64BE(payload, 4)))

\* LawnmowerTCPClient.handleChallenge; a read beyond the payload throws a
\* RangeError after the assignments before it
clientHandleChallenge(c, payload) ==
    IF Len(payload) < 4 THEN clientEmitError(c)
    ELSE IF Len(payload) < 12
    THEN clientEmitError([c EXCEPT !.serverPublicKey = ReadU32BE(payload, 0)])
    ELSE IF Len(payload) < 16
    THEN clientEmitError([c EXCEPT !.serverPublicKey = ReadU32BE(payload, 0),
                                   !.nonce = ReadU64BE(payload, 4)])
    ELSE clientVerifyChallenge(
             [c EXCEPT !.serverPublicKey = ReadU32BE(payload, 0),
                       !.nonce = ReadU64BE(payload, 4)],
             ReadU32BE(payload, 12))

\* a faulty handleData: every frame that is no CHALLENGE is a response
clientDispatchAnyType(c, sessionMsg) ==
    IF sessionMsg.messageType = MT_CHALLENGE /\ ~c.authenticated
    THEN clientHandleChallenge(c, sessionMsg.payload)
    ELSE clientEmitResponse(c, sessionMsg)

\* handleData once the session message is parsed
clientDispatch(c, sessionMsg) ==
    IF sessionMsg.messageType = MT_CHALLENGE
    THEN clientHandleChallenge(c, sessionMsg.payload)
    ELSE IF sessionMsg.messageType \in {0, 1}
    THEN clientEmitResponse(c, sessionMsg)
    ELSE IF sessionMsg.messageType = -1
    THEN clientEmitError(c)
    ELSE c

\* handleData once the frame is parsed: the presentation layer is parsed
\* first, the session layer after it
clientHandleFrame(c, frame) ==
    IF frame.err # OK THEN clientEmitError(c)
    ELSE IF Len(frame.payload) < 2 THEN clientEmitError(c)
    ELSE clientDispatch([c EXCEPT !.received = @ \cup {frame.payload}],
                        clientParseSessionMessage(
                            parsePresentationMessage(frame.payload).payload))

\* LawnmowerTCPClient.handleData
clientHandleData(c, data) ==
    clientHandleFrame([c EXCEPT !.last = [frame |-> data, emitted |-> "none",
                                          delivered |-> FALSE, written |-> <<>>]],
                      clientParseFrame(data))

\* LawnmowerTCPClient.authenticate, not yet authenticated
clientAuthenticate(c, secret) ==
    clientWrite([c EXCEPT !.listeners = @ \cup {"authenticated"},
                          !.clientSecret = secret, !.clientPublicKey = PublicKey(secret),
                          !.last = [frame |-> <<>>, emitted |-> "none",
                                    delivered |-> FALSE, written |-> <<>>]],
                MT_HELLO,
                createFrame(clientCreateSessionMessage(MT_HELLO, U32BE(PublicKey(secret)),
                                                       NULL)))

\* the frame of sendControlCommand and sendHeartbeat for a command payload
clientCommandFrame(c, presentationMsg) ==
    createFrame(clientCreateSessionMessage(MT_REGULAR, presentationMsg,
                    clientCalculateHMAC(c.sharedSecret, presentationMsg)))

\* sendControlCommand and sendHeartbeat, connected and authenticated: the
\* 'response' listener is set, then the frame is built and written
clientSendCommand(c, commandPayload) ==
    clientWrite([c EXCEPT !.listeners = @ \cup {"response"}, !.iinCounter = @ + 1,
                          !.last = [frame |-> <<>>, emitted |-> "none",
                                    delivered |-> FALSE, written |-> <<>>]],
                MT_REGULAR,
                clientCommandFrame(c, createPresentationMessage(c.iinCounter, commandPayload)))

-----------------------------------------------------------------------------
(* The dispatcher at work: executeAction, or a caller that uses the client *)
(* for a session of its own, against the service.  The transport is        *)
(* lossless: what one side writes arrives whole, in order, one data event  *)
(* for all the client wrote and one for each frame the service wrote.      *)
(* The timers do not fire here.                                            *)

\* commands one client sends
MaxRoundTrips == 3

\* the table device_states survives a restart: any latest row
InitDispatch ==
    /\ connections = <<>>
    /\ connectionCounter = 0
    /\ sockets = <<>>
    /\ timers = {}
    /\ now = 0
    /\ inflight = <<>>
    /\ device_states \in DeviceStates \cup {""}
    /\ ev = Event("init", 0, <<>>, NoOutput)
    /\ codec = NoCodec
    /\ client = NewClient
    /\ toClient = <<>>
    /\ call = NoCall
    /\ servers = ServersStarted
    /\ exchange = NoExchange
    /\ calls = NoCalls

\* the client after a step of its own, and what it wrote on its way
ClientDone(c) ==
    /\ client' = c
    /\ inflight' = inflight \o Concat(c.last.written)

\* executeAction up to the TCP command: the state is read and the action
\* validated; a valid one is logged and goes on to a new client
ExecuteAction(action) ==
    /\ call.phase \in {"idle", "done", "failed"}
    /\ \A i \in DOMAIN sockets : sockets[i] = "closed"
    /\ client' = NewClient
    /\ call' = IF validateActionForState(action, getCurrentState(device_states))
               THEN [NoCall EXCEPT !.kind = "action", !.phase = "connecting",
                                   !.action = action, !.logged = <<"requested">>,
                                   !.latest = device_states,
                                   !.currentState = getCurrentState(device_states)]
               ELSE [NoCall EXCEPT !.kind = "action", !.phase = "failed",
                                   !.action = action, !.latest = device_states,
                                   !.currentState = getCurrentState(device_states),
                                   !.error = "not valid for current state"]
    /\ UNCHANGED <<calls, connections, connectionCounter, sockets, timers, now, inflight, ev, codec, servers, exchange,
                   device_states, toClient>>

\* a caller other than executeAction takes a new client for a session
StartSession ==
    /\ call.phase = "idle"
    /\ \A i \in DOMAIN sockets : sockets[i] = "closed"
    /\ client' = NewClient
    /\ call' = [NoCall EXCEPT !.kind = "session", !.phase = "connecting"]
    /\ UNCHANGED <<calls, connections, connectionCounter, sockets, timers, now, inflight, ev, codec, servers, exchange,
                   device_states, toClient>>

\* connect(): the service accepts the connection
ClientConnect ==
    /\ call.phase = "connecting"
    /\ handleConnection
    /\ client' = [client EXCEPT !.connected = TRUE, !.id = connectionCounter + 1]
    /\ call' = [call EXCEPT !.phase = "connected"]
    /\ UNCHANGED <<calls, now, inflight, codec, servers, exchange, device_states, toClient>>

\* authenticate(): HELLO is written
Authenticate ==
    /\ call.phase = "connected"
    /\ ~client.authenticated
    /\ \E secret \in ClientSecrets : ClientDone(clientAuthenticate(client, secret))
    /\ call' = [call EXCEPT !.phase = "authenticating"]
    /\ UNCHANGED <<calls, connections, connectionCounter, sockets, timers, now, ev, codec, servers, exchange,
                   device_states, toClient>>

ServerDataDone(id, data, m) ==
    /\ OnDataDone(id, data, m)
    /\ toClient' = toClient \o m.wire

\* 'data' on the connection of the dispatcher: all it has written
ServerData(id) ==
    /\ id = client.id
    /\ id \in DOMAIN connections
    /\ sockets[id] = "open"
    /\ inflight # <<>>
    /\ \E rnd \in RandomChoices :
          ServerDataDone(id, inflight,
                         handleData(Machine([connections[id] EXCEPT !.lastActivity = now],
                                            sockets[id], rnd), inflight))
    /\ inflight' = <<>>
    /\ UNCHANGED <<calls, connectionCounter, now, codec, servers, exchange, client, call>>

\* the promise a delivered event resolves: authenticate() or the command
ClientDataDone(c) ==
    /\ ClientDone(c)
    /\ call' = IF c.last.delivered /\ c.last.emitted = "authenticated"
               THEN [call EXCEPT !.phase = "authenticated"]
               ELSE IF c.last.delivered /\ c.last.emitted = "response"
               THEN [call EXCEPT !.phase = "replied"]
               ELSE call

\* 'data' on the socket of the client: one frame the service wrote
ClientData ==
    /\ toClient # <<>>
    /\ client.id # 0
    /\ ~client.crashed
    /\ ClientDataDone(clientHandleData(client, Head(toClient)))
    /\ toClient' = Tail(toClient)
    /\ UNCHANGED <<calls, connections, connectionCounter, sockets, timers, now, ev, codec, servers, exchange,
                   device_states>>

\* sendControlCommand: the command of the action for executeAction, any of
\* them for another caller
SendControlCommand ==
    /\ \/ call.kind = "action" /\ call.phase = "authenticated"
       \/ call.kind = "session" /\ call.phase \in {"authenticated", "replied"}
    /\ client.connected /\ client.authenticated /\ ~client.crashed
    /\ client.iinCounter <= MaxRoundTrips
    /\ \E action \in ValidActions :
          /\ call.kind = "action" => action = call.action
          /\ ClientDone(clientSendCommand(client,
                 <<actionToCommandMap(action).command>> \o actionToCommandMap(action).action))
          /\ call' = [call EXCEPT !.phase = "awaiting", !.action = action]
    /\ UNCHANGED <<calls, connections, connectionCounter, sockets, timers, now, ev, codec, servers, exchange,
                   device_states, toClient>>

\* sendHeartbeat: command 0x00 with the payload FA CE
SendHeartbeat ==
    /\ call.kind = "session" /\ call.phase \in {"authenticated", "replied"}
    /\ client.connected /\ client.authenticated /\ ~client.crashed
    /\ client.iinCounter <= MaxRoundTrips
    /\ ClientDone(clientSendCommand(client, <<CMD_HEARTBEAT, 250, 206>>))
    /\ call' = [call EXCEPT !.phase = "awaiting", !.action = "heartbeat",
                            !.heartbeats = @ + 1]
    /\ UNCHANGED <<calls, connections, connectionCounter, sockets, timers, now, ev, codec, servers, exchange,
                   device_states, toClient>>

FinishDone(newState) ==
    /\ device_states' = IF newState # "" THEN newState ELSE device_states
    /\ call' = [call EXCEPT !.phase = "done",
                            !.newState = IF newState # "" THEN newState ELSE call.currentState,
                            !.wrote = IF newState # "" THEN <<newState>> ELSE <<>>,
                            !.logged = Append(@, "completed")]

\* executeAction after the TCP command: disconnect(), the expected state is
\* written and returned
Finish ==
    /\ call.kind = "action" /\ call.phase = "replied"
    /\ FinishDone(getExpectedStateForAction(call.action, call.currentState))
    /\ client' = [client EXCEPT !.connected = FALSE, !.authenticated = FALSE]
    /\ UNCHANGED <<calls, connections, connectionCounter, sockets, timers, now, inflight, ev, codec, servers, exchange,
                   toClient>>

\* the other caller ends its session: disconnect()
Disconnect ==
    /\ call.kind = "session" /\ call.phase \in {"authenticated", "replied"}
    /\ client' = [client EXCEPT !.connected = FALSE, !.authenticated = FALSE]
    /\ call' = [call EXCEPT !.phase = "done"]
    /\ UNCHANGED <<calls, connections, connectionCounter, sockets, timers, now, inflight, ev, codec, servers, exchange,
                   device_states, toClient>>

\* 'close' on both ends of the connection of the dispatcher: the client has
\* ended it, the service has destroyed it, or the client is gone
DispatcherClose(id) ==
    /\ id = client.id
    /\ id \in DOMAIN sockets
    /\ sockets[id] # "closed"
    /\ ~client.connected \/ client.crashed \/ sockets[id] = "destroyed"
    /\ toClient = <<>>
    /\ timers' = clearConnectionTimeout(id)
    /\ connections' = Delete(id)
    /\ sockets' = [sockets EXCEPT ![id] = "closed"]
    /\ inflight' = <<>>
    /\ ev' = Event("close", id, <<>>,
                   logCommunication(NoOutput, "Information", "Connection_Closed"))
    /\ client' = [client EXCEPT !.connected = FALSE, !.authenticated = FALSE]
    /\ UNCHANGED <<calls, connectionCounter, now, codec, servers, exchange, device_states, toClient, call>>

\* a CHALLENGE frame payload as handleHello writes it: IIN 0, HMAC, type,
\* serverPub, nonce, authS; genuine when authS is the tag of the key A
IsGenuineChallenge(p, A) ==
    /\ Len(p) = 23
    /\ p[7] = MT_CHALLENGE
    /\ ReadU32BE(p, 19) = calculateAuth(ReadU32BE(p, 7), A, ReadU64BE(p, 11))

\* what a peer without the PSK, or a fault on the way, makes of it: the tag
\* of CLIENT_AUTH, the PSK, a changed tag, a changed nonce
ForgedChallenges(p, A) ==
    {Slice(p, 0, 19) \o U32BE(calculateAuth(A, ReadU32BE(p, 7), ReadU64BE(p, 11))),
     Slice(p, 0, 19) \o U32BE(PSK),
     Slice(p, 0, 22) \o <<(p[23] + 1) % 256>>,
     Slice(p, 0, 11) \o <<(p[12] + 1) % 256>> \o Slice(p, 12, 23)}

TamperDone(p) ==
    /\ IsGenuineChallenge(p, client.clientPublicKey)
    /\ \E q \in ForgedChallenges(p, client.clientPublicKey) :
          toClient' = <<createFrame(q)>> \o Tail(toClient)

\* the CHALLENGE on its way to the client is replaced
TamperChallenge ==
    /\ call.phase = "authenticating"
    /\ toClient # <<>>
    /\ TamperDone(clientParseFrame(Head(toClient)).payload)
    /\ UNCHANGED <<calls, connections, connectionCounter, sockets, timers, now, inflight, ev, codec, servers, exchange,
                   device_states, client, call>>

\* a device connects while the dispatcher has no call in progress
DeviceConnect ==
    /\ call.phase \in {"idle", "done", "failed"}
    /\ Connect

\* ControlDevice and AckError requests of a device-side client, not
\* authenticated, under the bypass HMAC
DeviceControlFrames ==
    {createFrame(createSessionMessage(MT_REGULAR, createPresentationMessage(7, app),
                                      getBypassHMAC)) :
        app \in {createCommand(CMD_CONTROL_DEVICE, <<a>>) :
                    a \in {ACTION_STOP, ACTION_START, ACTION_HOME}}
                \cup {createCommand(CMD_ACK_ERROR, <<>>)}}

ReceiveControl(id) ==
    /\ id # client.id
    /\ \E frame \in DeviceControlFrames :
          OnData(id, frame, CHOOSE rnd \in RandomChoices : TRUE)
    /\ UNCHANGED inflight

DeviceClose(id) ==
    /\ id # client.id
    /\ SocketClose(id)

NextDispatch ==
    \/ \E action \in ValidActions : ExecuteAction(action)
    \/ StartSession
    \/ ClientConnect
    \/ Authenticate
    \/ \E id \in DOMAIN sockets : ServerData(id)
    \/ ClientData
    \/ TamperChallenge
    \/ SendControlCommand
    \/ SendHeartbeat
    \/ Finish
    \/ Disconnect
    \/ \E id \in DOMAIN sockets : DispatcherClose(id)
    \/ DeviceConnect
    \/ \E id \in DOMAIN sockets : ReceiveControl(id)
    \/ \E id \in DOMAIN sockets : DeviceClose(id)

SpecDispatch == InitDispatch /\ [][NextDispatch]_vars

-----------------------------------------------------------------------------
(* executeAction over a channel that damages frames: the last byte of a    *)
(* frame on its way, which is the low byte of its checksum, is changed.    *)

\* the frame with the low byte of its checksum changed
CorruptChecksum(frame) ==
    Slice(frame, 0, Len(frame) - 1) \o <<(frame[Len(frame)] + 1) % 256>>

\* a frame the service wrote is damaged on its way to the client
CorruptToClient ==
    /\ toClient # <<>>
    /\ parseFrame(Head(toClient)).err = OK
    /\ toClient' = <<CorruptChecksum(Head(toClient))>> \o Tail(toClient)
    /\ UNCHANGED <<calls, connections, connectionCounter, sockets, timers, now, inflight, ev, codec, servers, exchange,
                   device_states, client, call>>

\* a frame the client wrote is damaged on its way to the service
CorruptToServer ==
    /\ inflight # <<>>
    /\ parseFrame(inflight).err = OK
    /\ inflight' = CorruptChecksum(inflight)
    /\ UNCHANGED <<calls, connections, connectionCounter, sockets, timers, now, ev, codec, servers, exchange,
                   device_states, client, toClient, call>>

NextChannel ==
    \/ \E action \in ValidActions : ExecuteAction(action)
    \/ ClientConnect
    \/ Authenticate
    \/ \E id \in DOMAIN sockets : ServerData(id)
    \/ ClientData
    \/ CorruptToClient
    \/ CorruptToServer
    \/ SendControlCommand
    \/ Finish
    \/ \E id \in DOMAIN sockets : DispatcherClose(id)

SpecChannel == InitDispatch /\ [][NextChannel]_vars

-----------------------------------------------------------------------------
(* executeAction with the timers of the client and a peer that may refuse  *)
(* the connection, stay silent, close, or send a CHALLENGE that does not   *)
(* verify.  The steps of the client and its timers are taken when they can *)
(* be (weak fairness); the steps of the peer are not.                      *)

\* the catch block of sendAuthenticatedCommand and that of executeAction:
\* disconnect(), the failure is logged and thrown to the caller
Reject(error) ==
    /\ call' = [call EXCEPT !.phase = "failed", !.error = error,
                            !.logged = Append(@, "failed")]
    /\ client' = [client EXCEPT !.connected = FALSE, !.authenticated = FALSE,
                                !.listeners = {}]

\* connect(): 'error' on the socket, the peer refuses the connection
ConnectRefused ==
    /\ call.kind = "action" /\ call.phase = "connecting"
    /\ Reject("connect")
    /\ UNCHANGED <<calls, connections, connectionCounter, sockets, timers, now, inflight, ev, codec,
                   servers, exchange, device_states, toClient>>

\* connect(): the timer of connectionTimeout
ConnectionTimeout ==
    /\ call.kind = "action" /\ call.phase = "connecting"
    /\ Reject("Connection timeout")
    /\ UNCHANGED <<calls, connections, connectionCounter, sockets, timers, now, inflight, ev, codec,
                   servers, exchange, device_states, toClient>>

\* authenticate(): the timer of responseTimeout, while the process runs
AuthenticationTimeout ==
    /\ call.kind = "action" /\ call.phase = "authenticating"
    /\ ~client.crashed
    /\ Reject("Authentication timeout")
    /\ UNCHANGED <<calls, connections, connectionCounter, sockets, timers, now, inflight, ev, codec,
                   servers, exchange, device_states, toClient>>

\* sendControlCommand(): the timer of responseTimeout, while the process runs
ResponseTimeout ==
    /\ call.kind = "action" /\ call.phase = "awaiting"
    /\ ~client.crashed
    /\ Reject("Command response timeout")
    /\ UNCHANGED <<calls, connections, connectionCounter, sockets, timers, now, inflight, ev, codec,
                   servers, exchange, device_states, toClient>>

\* the peer closes the connection while the client waits for it: 'close' on
\* both ends.  (Between the promises of connect, authenticate and
\* sendControlCommand no event of the socket is handled.)
PeerCloses(id) ==
    /\ id = client.id
    /\ id \in DOMAIN connections
    /\ sockets[id] = "open"
    /\ call.phase \in {"authenticating", "awaiting"}
    /\ toClient = <<>>
    /\ timers' = clearConnectionTimeout(id)
    /\ connections' = Delete(id)
    /\ sockets' = [sockets EXCEPT ![id] = "closed"]
    /\ inflight' = <<>>
    /\ ev' = Event("close", id, <<>>,
                   logCommunication(NoOutput, "Information", "Connection_Closed"))
    /\ client' = [client EXCEPT !.connected = FALSE, !.authenticated = FALSE]
    /\ UNCHANGED <<calls, connectionCounter, now, codec, servers, exchange, device_states, toClient, call>>

\* the exception no handler of this code catches is absorbed by a handler
\* of the process outside it, and the process runs on; where there is none
\* the process has ended and this step is never taken
Absorbed ==
    /\ client.crashed
    /\ client' = [client EXCEPT !.crashed = FALSE]
    /\ UNCHANGED <<calls, connections, connectionCounter, sockets, timers, now, inflight, ev, codec,
                   servers, exchange, device_states, toClient, call>>

NextSettle ==
    \/ \E action \in ValidActions : ExecuteAction(action)
    \/ ClientConnect
    \/ ConnectRefused
    \/ ConnectionTimeout
    \/ Authenticate
    \/ AuthenticationTimeout
    \/ \E id \in DOMAIN sockets : ServerData(id)
    \/ ClientData
    \/ TamperChallenge
    \/ SendControlCommand
    \/ ResponseTimeout
    \/ \E id \in DOMAIN sockets : PeerCloses(id)
    \/ Absorbed
    \/ Finish
    \/ \E id \in DOMAIN sockets : DispatcherClose(id)

\* what Authenticate and SendControlCommand do to the call: the next promise
\* of sendAuthenticatedCommand is begun when the one before it has resolved
ClientProceeds ==
    \/ call.phase = "connected" /\ call' = [call EXCEPT !.phase = "authenticating"]
    \/ call.phase = "authenticated" /\ call' = [call EXCEPT !.phase = "awaiting"]

SpecSettle ==
    /\ InitDispatch
    /\ [][NextSettle]_vars
    /\ WF_call(ClientProceeds)
    /\ WF_vars(ConnectionTimeout)
    /\ WF_vars(AuthenticationTimeout)
    /\ WF_vars(ResponseTimeout)

-----------------------------------------------------------------------------
(* The key agreement.  The two functions are applied to a pair of secrets  *)
(* of the range of generateRandomSecret, [1, 0xFFFF], each end combining   *)
(* the public key of the other with its own secret.  Where the pair is one *)
(* the dispatcher and the service can draw, the dispatcher then runs a     *)
(* call against the service.                                               *)

\* secrets of [1, 0xFFFF]: both ends of the range, one and several bits set,
\* the secrets of the handshakes of the model
KeySecrets ==
    {W(0, 1), W(0, 2), W(0, 3), W(0, 255), W(0, 256), W(0, 4660), W(0, 22136),
     W(0, 32768), W(0, 65534), W(0, 65535)}

InitAgreement ==
    /\ connections = <<>>
    /\ connectionCounter = 0
    /\ sockets = <<>>
    /\ timers = {}
    /\ now = 0
    /\ inflight = <<>>
    /\ device_states \in DeviceStates \cup {""}
    /\ ev = Event("init", 0, <<>>, NoOutput)
    /\ codec = NoCodec
    /\ client = NewClient
    /\ toClient = <<>>
    /\ call = NoCall
    /\ servers = ServersStarted
    /\ exchange \in {[NoExchange EXCEPT !.a = a, !.b = b, !.step = "drawn"] :
                        a \in KeySecrets, b \in KeySecrets}
    /\ calls = NoCalls

\* each end derives its public key from its secret
CalculatePublicKeys ==
    /\ exchange.step = "drawn"
    /\ exchange' = [exchange EXCEPT !.A = calculatePublicKey(exchange.a),
                                    !.B = calculatePublicKey(exchange.b),
                                    !.step = "keys"]
    /\ UNCHANGED <<calls, connections, connectionCounter, sockets, timers, now, inflight, ev, codec,
                   servers, device_states, dispatcher>>

\* each end combines the public key of the other with its own secret
CalculateSharedSecrets ==
    /\ exchange.step = "keys"
    /\ exchange' = [exchange EXCEPT !.sharedA = calculateSharedSecret(exchange.B, exchange.a),
                                    !.sharedB = calculateSharedSecret(exchange.A, exchange.b),
                                    !.step = "shared"]
    /\ UNCHANGED <<calls, connections, connectionCounter, sockets, timers, now, inflight, ev, codec,
                   servers, device_states, dispatcher>>

\* the agreement is computed, for a pair of secrets the two ends can draw:
\* the dispatcher runs its call
Handshake ==
    /\ exchange.step = "shared"
    /\ exchange.a \in ClientSecrets
    /\ exchange.b \in ServerSecrets

NextAgreement ==
    \/ CalculatePublicKeys
    \/ CalculateSharedSecrets
    \/ Handshake /\ \E action \in ValidActions : ExecuteAction(action)
    \/ Handshake /\ ClientConnect
    \/ Handshake /\ Authenticate
    \/ Handshake /\ \E id \in DOMAIN sockets : ServerData(id)
    \/ Handshake /\ ClientData
    \/ Handshake /\ SendControlCommand
    \/ Handshake /\ Finish
    \/ Handshake /\ \E id \in DOMAIN sockets : DispatcherClose(id)

SpecAgreement == InitAgreement /\ [][NextAgreement]_vars

-----------------------------------------------------------------------------
(* Calls of executeAction that run at a time for one device.  Every await  *)
(* of executeAction is a point where the other call can run: between the   *)
(* SELECT of getCurrentState and the TCP command, and between the response *)
(* and the INSERT of updateDeviceState.  The TCP command of a call is one  *)
(* step here: its connection is accepted, authenticated, served and closed *)
(* before the other call goes on.                                          *)

\* the other calls that are between their SELECT and their INSERT take note
\* of a row that is not theirs
Noted(c, state, record) ==
    [d \in CallIds |->
        IF d = c THEN record
        ELSE IF calls[d].phase \in {"requested", "replied"} /\ state # ""
             THEN [calls[d] EXCEPT !.latest = state]
             ELSE calls[d]]

\* the connectionInfo of a dispatcher that has authenticated
AuthenticatedConnection ==
    [id |-> connectionCounter + 1, lawnmower |-> 1, authenticated |-> TRUE,
     sharedSecret |-> CHOOSE s \in {e[3] : e \in SharedSecretMemo} : TRUE,
     buffer |-> <<>>, lastActivity |-> now,
     authState |-> [serverSecret |-> NULL, clientPublicKey |-> NULL,
                    nonce |-> NULL, serverPublicKey |-> UNDEFINED]]

\* what the service does with the command of an action
Served(action) ==
    handleCommand(Machine(AuthenticatedConnection, "open",
                          CHOOSE rnd \in RandomChoices : TRUE),
                  1,
                  parseCommand(createCommand(actionToCommandMap(action).command,
                                             actionToCommandMap(action).action)))

\* the row the service wrote for the command, "" if none
ServedState(action) ==
    IF Served(action).states = <<>> THEN ""
    ELSE Served(action).states[Len(Served(action).states)]

\* executeAction up to its TCP command
BeginAction(c, action) ==
    /\ calls[c].phase \in {"idle", "done", "failed"}
    /\ calls' = [calls EXCEPT ![c] =
                    IF validateActionForState(action, getCurrentState(device_states))
                    THEN [NoConcurrentCall EXCEPT
                             !.phase = "requested", !.action = action,
                             !.currentState = getCurrentState(device_states),
                             !.latest = getCurrentState(device_states),
                             !.logged = <<"requested">>]
                    ELSE [NoConcurrentCall EXCEPT
                             !.phase = "failed", !.action = action,
                             !.currentState = getCurrentState(device_states),
                             !.latest = getCurrentState(device_states),
                             !.error = "not valid for current state"]]
    /\ UNCHANGED <<connections, connectionCounter, sockets, timers, now, inflight, ev, codec,
                   device_states, client, toClient, call, servers, exchange>>

\* sendAuthenticatedCommand resolves: the service has taken the command
CommandSent(c) ==
    /\ calls[c].phase = "requested"
    /\ connectionCounter < MaxConn
    /\ connectionCounter' = connectionCounter + 1
    /\ sockets' = Append(sockets, "closed")
    /\ device_states' = IF ServedState(calls[c].action) # ""
                        THEN ServedState(calls[c].action) ELSE device_states
    /\ calls' = Noted(c, ServedState(calls[c].action),
                      [calls[c] EXCEPT !.phase = "replied"])
    /\ UNCHANGED <<connections, timers, now, inflight, ev, codec, client, toClient, call,
                   servers, exchange>>

\* sendAuthenticatedCommand rejects: no connection was made
CommandFailed(c) ==
    /\ calls[c].phase = "requested"
    /\ calls' = [calls EXCEPT ![c] = [@ EXCEPT !.phase = "failed",
                                               !.error = "connect ECONNREFUSED",
                                               !.logged = Append(@, "failed")]]
    /\ UNCHANGED <<connections, connectionCounter, sockets, timers, now, inflight, ev, codec,
                   device_states, client, toClient, call, servers, exchange>>

\* executeAction after its TCP command: the expected state is written
StateUpdated(c) ==
    /\ calls[c].phase = "replied"
    /\ device_states' =
           IF getExpectedStateForAction(calls[c].action, calls[c].currentState) # ""
           THEN getExpectedStateForAction(calls[c].action, calls[c].currentState)
           ELSE device_states
    /\ calls' = Noted(c, getExpectedStateForAction(calls[c].action, calls[c].currentState),
                      [calls[c] EXCEPT
                          !.phase = "done",
                          !.newState = getExpectedStateForAction(calls[c].action,
                                                                 calls[c].currentState),
                          !.logged = Append(@, "completed")])
    /\ UNCHANGED <<connections, connectionCounter, sockets, timers, now, inflight, ev, codec,
                   client, toClient, call, servers, exchange>>

NextConcurrent ==
    \/ \E c \in CallIds, action \in ValidActions : BeginAction(c, action)
    \/ \E c \in CallIds : CommandSent(c)
    \/ \E c \in CallIds : CommandFailed(c)
    \/ \E c \in CallIds : StateUpdated(c)

SpecConcurrent == InitDispatch /\ [][NextConcurrent]_vars

-----------------------------------------------------------------------------
(* Properties.  They read the last event (ev) and the state after it.      *)

\* the connectionInfo after the event
Post == connections[ev.id]

Logged(severity, eventType) ==
    \E i \in 1..Len(ev.logs) : ev.logs[i] = <<severity, eventType>>

\* the bytes the event's handleData worked on
Received == ev.pre.buffer \o ev.chunk

RequestFrame == parseFrame(Received)

\* the data event had exactly one whole frame to work on
OneFrame ==
    /\ ev.kind = "data"
    /\ RequestFrame.err = OK
    /\ RequestFrame.totalLength = Len(Received)

\* its session message
Request == parseSessionMessage(RequestFrame.payload)

IsRequest(messageType) ==
    OneFrame /\ Request.err = OK /\ Request.messageType = messageType

\* the session message of the i-th frame the event wrote
Response(i) == parseSessionMessage(parseFrame(ev.wire[i]).payload)

\* the REGULAR message passes the gate of handleRegularMessage
GatePasses == ev.pre.authenticated \/ Request.hmac = <<250, 222, 219, 237>>

Rejected ==
    /\ ev.logs = <<<<"Warning", "Unauthenticated_Message">>>>
    /\ ev.wire = <<>>
    /\ ev.states = <<>>
    /\ ev.handled = <<>>

\* the tag CLIENT_AUTH must carry for the authState stored before the event,
\* written out from the protocol: hash(A ++ B ++ Ns) XOR PSK
ExpectedTag ==
    XorW(calculateHash(U32BE(ev.pre.authState.clientPublicKey)
                           \o U32BE(ev.pre.authState.serverPublicKey)
                           \o U64BE(ev.pre.authState.nonce)),
         W(65261, 24301))

\* C1 as stated: a REGULAR message is passed to the command handlers if and
\* only if the connection is authenticated or the HMAC field is FA DE DB ED;
\* otherwise Unauthenticated_Message is logged, nothing is written and no
\* device state is persisted.
C1_PassedIffGate ==
    IsRequest(MT_REGULAR) =>
        /\ (ev.handled # <<>>) <=> GatePasses
        /\ ~GatePasses => Rejected

\* C1 amended: a REGULAR message that fails the gate is rejected as stated; one
\* that passes it is handed to handleCommand, with its IIN and command byte,
\* exactly when its body holds them (3 bytes or more), and otherwise only
\* Command_Parse_Error is logged.
C1_Gate ==
    IsRequest(MT_REGULAR) =>
        /\ ~GatePasses => Rejected
        /\ (GatePasses /\ Len(Request.payload) >= 3) =>
              /\ Len(ev.handled) = 1
              /\ ev.handled[1].iin = Request.payload[1] * 256 + Request.payload[2]
              /\ ev.handled[1].command.command = Request.payload[3]
        /\ (GatePasses /\ Len(Request.payload) < 3) =>
              /\ ev.handled = <<>>
              /\ ev.logs = <<<<"Error", "Command_Parse_Error">>>>
              /\ ev.wire = <<>>
              /\ ev.states = <<>>

\* an authenticated connection was sent a command under an HMAC that is not
\* the bypass constant, and the command was handled
C1_Witness ==
    /\ IsRequest(MT_REGULAR)
    /\ ev.pre.authenticated
    /\ Request.hmac # <<250, 222, 219, 237>>
    /\ ev.handled # <<>>

\* C2: a connection starts unauthenticated with no handshake state; only a
\* HELLO changes the stored handshake state (to its own key, the secret and
\* nonce drawn for it and the public key of that secret); and a data event
\* authenticates a connection only if it is a CLIENT_AUTH, a HELLO was stored
\* before, and authC is the tag of the stored clientPub, serverPub and nonce.
C2_Authentication ==
    /\ ev.kind = "connect" =>
          ~Post.authenticated /\ Post.authState.nonce = NULL /\ Post.sharedSecret = NULL
    /\ ev.kind = "data" =>
          /\ Post.authState # ev.pre.authState =>
                /\ \E i \in 1..Len(ev.processed) :
                      LET hello == parseSessionMessage(ev.processed[i])
                      IN  /\ hello.err = OK
                          /\ hello.messageType = MT_HELLO
                          /\ Len(hello.payload) >= 4
                          /\ Post.authState.clientPublicKey = ReadU32BE(hello.payload, 0)
                /\ Post.authState.nonce \in Nonces
                /\ Post.authState.serverSecret \in ServerSecrets
                /\ Post.authState.serverPublicKey = PublicKey(Post.authState.serverSecret)
          /\ (Post.authenticated /\ ~ev.pre.authenticated) =>
                /\ IsRequest(MT_CLIENT_AUTH)
                /\ Len(Request.payload) >= 4
                /\ ev.pre.authState.nonce # NULL
                /\ ReadU32BE(Request.payload, 0) = ExpectedTag
          /\ (~Post.authenticated) => ~ev.pre.authenticated

\* a CLIENT_AUTH has just authenticated a connection
C2_Witness ==
    /\ ev.kind = "data"
    /\ Post.authenticated
    /\ ~ev.pre.authenticated

\* the case of C3: a CLIENT_AUTH with a 4-byte tag arrives after a HELLO was
\* stored, and the tag is not the expected one
WrongTag ==
    /\ IsRequest(MT_CLIENT_AUTH)
    /\ Len(Request.payload) >= 4
    /\ ev.pre.authState.nonce # NULL
    /\ ReadU32BE(Request.payload, 0) # ExpectedTag

\* C3: a CLIENT_AUTH whose authC is not the expected tag logs Auth_Failed with
\* severity Error, destroys the socket, and leaves the authenticated flag and
\* the shared secret as they were.
C3_AuthFailed ==
    WrongTag =>
        /\ ev.logs = <<<<"Error", "Auth_Failed">>>>
        /\ sockets[ev.id] = "destroyed"
        /\ Post.authenticated = ev.pre.authenticated
        /\ Post.sharedSecret = ev.pre.sharedSecret
        /\ ev.wire = <<>>

\* a wrong tag arrived on a connection that was not authenticated
C3_Witness ==
    /\ WrongTag
    /\ ~ev.pre.authenticated
    /\ Logged("Error", "Auth_Failed")

\* the response code the request's command is answered with: 0 when the
\* command has none
ResponseCode(app) ==
    CASE app[1] = CMD_HEARTBEAT -> 128
      [] app[1] = CMD_CONTROL_DEVICE -> IF Len(app) >= 2 THEN 129 ELSE 255
      [] app[1] = CMD_ACK_ERROR -> 130
      [] app[1] = CMD_RESET_BLADE_TIME -> 131
      [] OTHER -> 0

\* C4: a REGULAR request that is handled and has a response (heartbeat 0x80,
\* control 0x81, ack-error 0x82, reset-blade-time 0x83, error 0xFF) is answered
\* by exactly one frame, with that response code, whose two IIN bytes are the
\* two IIN bytes of the request; a request without a response is answered by
\* no frame.
C4_ResponseIIN ==
    (IsRequest(MT_REGULAR) /\ ev.handled # <<>>) =>
        LET app == SubSeq(Request.payload, 3, Len(Request.payload))
        IN  /\ Len(ev.wire) = IF ResponseCode(app) = 0 THEN 0 ELSE 1
            /\ \A i \in 1..Len(ev.wire) :
                  /\ parseFrame(ev.wire[i]).err = OK
                  /\ Response(i).messageType = MT_REGULAR
                  /\ SubSeq(Response(i).payload, 1, 2) = SubSeq(Request.payload, 1, 2)
                  /\ Response(i).payload[3] = ResponseCode(app)

\* the error response 0xFF was written for a request with IIN 0x1234
C4_Witness ==
    /\ IsRequest(MT_REGULAR)
    /\ Len(ev.wire) = 1
    /\ SubSeq(Request.payload, 1, 2) = <<18, 52>>
    /\ SubSeq(Response(1).payload, 1, 3) = <<18, 52, 255>>

\* C5: the HMAC field of every response to a REGULAR request is
\* hash(iin_BE ++ app_bytes of the response) XOR shared_secret when the
\* connection is authenticated, and FA DE DB ED when it is not authenticated
\* and the request carried FA DE DB ED.
C5_ResponseHMAC ==
    IsRequest(MT_REGULAR) =>
        \A i \in 1..Len(ev.wire) :
            /\ ev.pre.authenticated =>
                  Response(i).hmac =
                      U32BE(XorW(calculateHash(Response(i).payload), ev.pre.sharedSecret))
            /\ (~ev.pre.authenticated /\ Request.hmac = <<250, 222, 219, 237>>) =>
                  Response(i).hmac = <<250, 222, 219, 237>>

\* an authenticated connection was answered under an HMAC that is not the
\* bypass constant, to a request that carried the bypass constant
C5_Witness ==
    /\ IsRequest(MT_REGULAR)
    /\ ev.pre.authenticated
    /\ Len(ev.wire) = 1
    /\ Request.hmac = <<250, 222, 219, 237>>
    /\ Response(1).hmac # <<250, 222, 219, 237>>

\* C6: parseFrame(createFrame(p) ++ tail) succeeds and returns p, with
\* totalLength the length of createFrame(p), which is 1 + the length field +
\* |p| + 2.
C6_RoundTrip ==
    codec.result.err # "none" =>
        /\ codec.result = [err |-> OK, payload |-> codec.payload,
                           totalLength |-> Len(codec.frame)]
        /\ Len(codec.frame) =
              Len(codec.payload) + 4
                  + (IF Len(codec.payload) >= 128 THEN 1 ELSE 0)
                  + (IF Len(codec.payload) >= 16384 THEN 1 ELSE 0)

\* a payload of 16384 bytes (a length field of three bytes) was framed and
\* parsed with bytes of a next frame behind it
C6_Witness ==
    /\ codec.result.err = OK
    /\ Len(codec.payload) = 16384
    /\ codec.tail # <<>>

\* C7 as stated: the first bytes of a valid frame, however few, are kept in the
\* buffer with nothing logged and nothing processed, and the frame is processed
\* once when its last byte has arrived.
C7_SplitFrame ==
    ev.kind = "data" =>
        \A frame \in StreamFrames :
            /\ \A k \in 1..(Len(frame) - 1) :
                  (ev.pre.buffer = <<>> /\ ev.chunk = SubSeq(frame, 1, k)) =>
                      /\ Post.buffer = ev.chunk
                      /\ ev.logs = <<>>
                      /\ ev.processed = <<>>
            /\ (ev.pre.buffer # <<>> /\ Received = frame) =>
                  /\ ev.processed = <<parseFrame(frame).payload>>
                  /\ Post.buffer = <<>>

\* the frames of a batch, as payloads
Payloads(batch) == [i \in 1..Len(batch) |-> parseFrame(batch[i]).payload]

\* C8: when the buffer and the delivered bytes together hold some whole frames
\* and then the first bytes of another (or nothing), those frames are all
\* processed, in the order of their bytes, and their responses are written in
\* that order: the i-th frame written answers the i-th request.
C8_ArrivalOrder ==
    ev.kind = "data" =>
        \A batch \in Batches(MaxInflight), frame \in StreamFrames :
            \A k \in 0..(Len(frame) - 1) :
                Received = Concat(batch) \o SubSeq(frame, 1, k) =>
                    /\ ev.processed = Payloads(batch)
                    /\ Len(ev.wire) = Len(batch)
                    /\ \A i \in 1..Len(batch) :
                          /\ Response(i).payload[3] = 128
                          /\ SubSeq(Response(i).payload, 1, 2) = SubSeq(ev.processed[i], 6, 7)
                          /\ SubSeq(Response(i).payload, 4, Len(Response(i).payload))
                                 = SubSeq(ev.processed[i], 9, Len(ev.processed[i]))

\* two different frames arrived in one data event and both were answered
C8_Witness ==
    /\ ev.kind = "data"
    /\ ev.pre.buffer = <<>>
    /\ Len(ev.processed) = 2
    /\ ev.processed[1] # ev.processed[2]
    /\ Len(ev.wire) = 2

\* the case of C9: the bytes to work on do not start with a frame, and not
\* with the beginning of one either
DecodeError == ev.kind = "data" /\ RequestFrame.err \notin {OK, "Incomplete frame"}

\* C9: a decode error other than Incomplete logs Invalid_Frame with severity
\* Error, empties the buffer, leaves the socket open and the authentication
\* state as it was; and a whole valid frame that arrives on an empty buffer,
\* whatever came before, is handed to processFrame.
C9_InvalidFrame ==
    /\ DecodeError =>
          /\ ev.logs = <<<<"Error", "Invalid_Frame">>>>
          /\ Post.buffer = <<>>
          /\ sockets[ev.id] = "open"
          /\ Post.authenticated = ev.pre.authenticated
          /\ Post.sharedSecret = ev.pre.sharedSecret
          /\ Post.authState = ev.pre.authState
          /\ ev.processed = <<>>
    /\ (OneFrame /\ ev.pre.buffer = <<>>) =>
          /\ ev.processed = <<RequestFrame.payload>>
          /\ ~Logged("Error", "Invalid_Frame")
          /\ Post.buffer = <<>>

\* a frame with a wrong checksum arrived on an authenticated connection
C9_Witness ==
    /\ DecodeError
    /\ RequestFrame.err = "Checksum mismatch"
    /\ ev.pre.authenticated
    /\ Post.authenticated

\* C10 as stated: the timer destroys the socket of a connection only when
\* TIMEOUT_CONNECTION ms have passed since the last data event on it.
C10_TimerReset ==
    (ev.kind = "timeout" /\ ev.pre.id # 0 /\ ev.socket = "open") =>
        ev.at - ev.pre.lastActivity >= TIMEOUT_CONNECTION

-----------------------------------------------------------------------------
(* The dispatcher.                                                         *)

\* C11: a client that completed the handshake and has sent only heartbeats,
\* with the IINs 1, 2, ... of its counter, has a reply for each of them once
\* the service has answered and the client has read the answers, and its
\* connection is open and the client alive.
C11_HeartbeatReplies ==
    (/\ call.kind = "session"
     /\ call.phase # "done"
     /\ call.heartbeats >= 1
     /\ call.heartbeats = client.iinCounter - 1
     /\ inflight = <<>>
     /\ toClient = <<>>)
        => /\ Len(client.replies) = call.heartbeats
           /\ ~client.crashed
           /\ client.id \in DOMAIN sockets
           /\ sockets[client.id] = "open"

\* the actions permitted in a state; a device without a row is taken as
\* StationChargingCompleted
C12_Permitted(state, action) ==
    \/ state \in {"StationCharging", "StationChargingCompleted", ""} /\ action = "start"
    \/ state = "Mowing" /\ action \in {"stop", "home"}
    \/ state = "ReturningToStation" /\ action = "stop"
    \/ state = "Paused" /\ action \in {"start", "home"}
    \/ state = "Error" /\ action = "ackerror"

C13_Wire(action) ==
    CASE action = "start" -> <<1, 1>>
      [] action = "stop" -> <<1, 0>>
      [] action = "home" -> <<1, 2>>
      [] action = "ackerror" -> <<2>>

C13_Expected(action) ==
    CASE action = "start" -> "Mowing"
      [] action = "stop" -> "Paused"
      [] action = "home" -> "ReturningToStation"
      [] action = "ackerror" -> "Paused"

\* C13: when executeAction has succeeded, the service handled the wire command
\* of the action (start 01 01, stop 01 00, home 01 02, ackerror 02), the call
\* wrote and returned Mowing, Paused, ReturningToStation or Paused, and the
\* handler of the service persisted that same state.
C13_CommandAndState ==
    (call.kind = "action" /\ call.phase = "done" /\ ev.kind = "data" /\ ev.id = client.id) =>
        /\ Len(ev.handled) = 1
        /\ <<ev.handled[1].command.command>> \o ev.handled[1].command.payload
              = C13_Wire(call.action)
        /\ ev.states = <<C13_Expected(call.action)>>
        /\ call.wrote = <<C13_Expected(call.action)>>
        /\ call.newState = C13_Expected(call.action)
        /\ device_states = C13_Expected(call.action)

\* C13 witness: ackerror in the state Error has succeeded
C13_Witness ==
    /\ call.kind = "action"
    /\ call.phase = "done"
    /\ ev.kind = "data"
    /\ ev.id = client.id
    /\ call.action = "ackerror"
    /\ call.latest = "Error"
    /\ call.newState = "Paused"

\* the state the service persists for a handled command
C14_Persisted(command) ==
    CASE command.command = CMD_CONTROL_DEVICE /\ command.payload = <<0>> -> "Paused"
      [] command.command = CMD_CONTROL_DEVICE /\ command.payload = <<1>> -> "Mowing"
      [] command.command = CMD_CONTROL_DEVICE /\ command.payload = <<2>> -> "ReturningToStation"
      [] command.command = CMD_ACK_ERROR -> "Paused"
      [] OTHER -> ""

\* C14: a handled ControlDevice with action 0, 1 or 2 persists Paused, Mowing
\* or ReturningToStation and a handled AckError persists Paused, in every
\* state the device was in before: the handler checks no pre-condition.
C14_NoPrecondition ==
    (/\ ev.kind = "data"
     /\ Len(ev.handled) = 1
     /\ C14_Persisted(ev.handled[1].command) # "") =>
        /\ ev.states = <<C14_Persisted(ev.handled[1].command)>>
        /\ device_states = C14_Persisted(ev.handled[1].command)

\* C14 witness: a device in StationCharging, where the dispatcher permits
\* only start, was sent HOME and is now ReturningToStation
C14_Witness ==
    /\ ev.kind = "data"
    /\ ev.device = "StationCharging"
    /\ Len(ev.handled) = 1
    /\ ev.handled[1].command = [err |-> OK, command |-> CMD_CONTROL_DEVICE, payload |-> <<2>>]
    /\ device_states = "ReturningToStation"

\* "Invalid control command" in UTF-8
C15_Text ==
    <<73, 110, 118, 97, 108, 105, 100, 32, 99, 111, 110, 116, 114, 111, 108, 32,
      99, 111, 109, 109, 97, 110, 100>>

\* C15: a handled ControlDevice request without a body is answered by exactly
\* one frame, a REGULAR response with the IIN of the request, the command 0xFF
\* and the text "Invalid control command"; no 0x81 response is written and no
\* device state is persisted.
C15_InvalidControl ==
    (/\ IsRequest(MT_REGULAR)
     /\ ev.handled # <<>>
     /\ SubSeq(Request.payload, 3, Len(Request.payload)) = <<CMD_CONTROL_DEVICE>>) =>
        /\ Len(ev.wire) = 1
        /\ parseFrame(ev.wire[1]).err = OK
        /\ Response(1).err = OK
        /\ Response(1).messageType = MT_REGULAR
        /\ Response(1).payload = SubSeq(Request.payload, 1, 2) \o <<255>> \o C15_Text
        /\ ev.states = <<>>
        /\ device_states = ev.device

\* C15 witness: the request with IIN 0x1234 was answered so, after a START
\* had set the device to Mowing
C15_Witness ==
    /\ IsRequest(MT_REGULAR)
    /\ Request.payload = <<18, 52, CMD_CONTROL_DEVICE>>
    /\ Len(ev.wire) = 1
    /\ Response(1).payload[3] = 255
    /\ device_states = "Mowing"

\* C16: a handled REGULAR request with command 0, 1, 2 or 3, ControlDevice
\* with its action byte, is answered by exactly one frame, a REGULAR message
\* whose command is the request's with the high bit set; the heartbeat
\* response carries the body of the request byte for byte, the others none.
C16_Responses ==
    (/\ IsRequest(MT_REGULAR)
     /\ ev.handled # <<>>
     /\ Len(Request.payload) >= 3
     /\ Request.payload[3] \in {CMD_HEARTBEAT, CMD_CONTROL_DEVICE, CMD_ACK_ERROR,
                                CMD_RESET_BLADE_TIME}
     /\ Request.payload[3] = CMD_CONTROL_DEVICE => Len(Request.payload) >= 4) =>
        /\ Len(ev.wire) = 1
        /\ parseFrame(ev.wire[1]).err = OK
        /\ Response(1).err = OK
        /\ Response(1).messageType = MT_REGULAR
        /\ Len(Response(1).payload) >= 3
        /\ Response(1).payload[3] = Request.payload[3] + 128
        /\ SubSeq(Response(1).payload, 4, Len(Response(1).payload))
              = IF Request.payload[3] = CMD_HEARTBEAT
                THEN SubSeq(Request.payload, 4, Len(Request.payload))
                ELSE <<>>

\* C16 witness: the heartbeat with the body DE AD was answered with DE AD
C16_Witness ==
    /\ IsRequest(MT_REGULAR)
    /\ Request.payload = <<1, 2, CMD_HEARTBEAT, 222, 173>>
    /\ Len(ev.wire) = 1
    /\ Response(1).payload = <<1, 2, 128, 222, 173>>

\* C17: when the client has read a frame that the service wrote as a REGULAR
\* response to the command of a pending call, the response was handed to that
\* call as its reply, with any IIN of the counter and any HMAC.
C17_FirstResponseDelivered ==
    (/\ call.phase \in {"awaiting", "replied"}
     /\ client.last.frame # <<>>
     /\ parseFrame(client.last.frame).err = OK
     /\ parseSessionMessage(parseFrame(client.last.frame).payload).err = OK
     /\ parseSessionMessage(parseFrame(client.last.frame).payload).messageType = MT_REGULAR) =>
        /\ client.last.emitted = "response"
        /\ client.last.delivered
        /\ call.phase = "replied"

\* the frame payload p is a CHALLENGE (IIN 0, HMAC, type, serverPub, nonce,
\* authS) whose tag is hash(serverPub ++ clientPub ++ nonce) XOR PSK for the
\* public key of the client
C18_Verified(p) ==
    /\ Len(p) = 23
    /\ p[7] = MT_CHALLENGE
    /\ ReadU32BE(p, 19)
          = XorW(calculateHash(SubSeq(p, 8, 11) \o U32BE(client.clientPublicKey)
                                   \o SubSeq(p, 12, 19)),
                 W(65261, 24301))

\* C18: the client is authenticated, or has written a CLIENT_AUTH or a REGULAR
\* message, only if it has read a CHALLENGE whose authS is the tag of
\* serverPub, its own clientPub and the nonce under the PSK; after a CHALLENGE
\* with another authS nothing but the HELLO was ever written.
C18_ServerVerified ==
    (\/ client.authenticated
     \/ \E i \in DOMAIN client.sent : client.sent[i] \in {MT_CLIENT_AUTH, MT_REGULAR}) =>
        \E p \in client.received : C18_Verified(p)

\* C18 witness: the client has read a CHALLENGE with a wrong authS; it wrote
\* the HELLO and nothing else
C18_Witness ==
    /\ client.sent = <<MT_HELLO>>
    /\ ~client.authenticated
    /\ client.last.emitted = "error"
    /\ \E p \in client.received : Len(p) = 23 /\ p[7] = MT_CHALLENGE /\ ~C18_Verified(p)

\* C19: a NOTIFICATION is handled whether the connection is authenticated or
\* not and whatever its HMAC is: a DeviceStatus with its 6 bytes stores
\* telemetry and a PositionUpdate with its 12 bytes a position; no frame is
\* written, and the authentication state of the connection stays as it was.
C19_Notification ==
    IsRequest(MT_NOTIFICATION) =>
        /\ ev.wire = <<>>
        /\ ~Logged("Warning", "Unauthenticated_Message")
        /\ ev.id \in DOMAIN connections
        /\ Post.authenticated = ev.pre.authenticated
        /\ Post.authState = ev.pre.authState
        /\ Post.sharedSecret = ev.pre.sharedSecret
        /\ sockets[ev.id] = ev.socket
        /\ (Len(Request.payload) >= 7 /\ Request.payload[1] = NT_DEVICE_STATUS) =>
              /\ Len(ev.battery) = 1
              /\ Len(ev.states) = 1
        /\ (Len(Request.payload) >= 13 /\ Request.payload[1] = NT_POSITION_UPDATE) =>
              Len(ev.gps) = 1

\* C19 witness: a DeviceStatus under the HMAC 00 00 00 00 stored telemetry on
\* a connection between its HELLO and its CLIENT_AUTH
C19_Witness ==
    /\ IsRequest(MT_NOTIFICATION)
    /\ Request.hmac = <<0, 0, 0, 0>>
    /\ ~ev.pre.authenticated
    /\ ev.pre.authState.nonce # NULL
    /\ Request.payload[1] = NT_DEVICE_STATUS
    /\ Len(ev.battery) = 1
    /\ device_states = "Mowing"

\* C20: a DeviceStatus notification with fewer than 6 bytes after its type,
\* or a PositionUpdate with fewer than 12, stores no telemetry, no state and
\* no position, and a Warning is logged.
C20_ShortNotification ==
    (/\ IsRequest(MT_NOTIFICATION)
     /\ Len(Request.payload) >= 1
     /\ \/ Request.payload[1] = NT_DEVICE_STATUS /\ Len(Request.payload) - 1 < 6
        \/ Request.payload[1] = NT_POSITION_UPDATE /\ Len(Request.payload) - 1 < 12) =>
        /\ ev.battery = <<>>
        /\ ev.states = <<>>
        /\ ev.gps = <<>>
        /\ \E i \in 1..Len(ev.logs) : ev.logs[i][1] = "Warning"

-----------------------------------------------------------------------------
(* Telemetry, start-up and shut-down, the codec.                           *)

\* C21: the battery level of every DeviceStatus notification that is stored
\* lies between 0 and 100 percent, for every value 0..255 of its byte.
C21_BatteryPercent ==
    \A i \in 1..Len(ev.battery) :
        \/ ev.battery[i][1] < 100
        \/ ev.battery[i] = <<100, 0>>

\* C22: a data event during which the database rejects every INSERT ends as
\* one during which it does not, except that no row is stored: the socket is
\* open, the authentication state is what the frame makes it, a handled
\* request has its response on the wire; and the frames after it are handled
\* as usual, their rows stored.
C22_SinkFailureSwallowed ==
    (OneFrame /\ Request.err = OK /\ (~ev.db \/ ~ev.prev)) =>
        /\ ev.id \in DOMAIN connections
        /\ ~ev.db => device_states = ev.device
        /\ (ev.db /\ ev.states # <<>>) => device_states = ev.states[Len(ev.states)]
        /\ Request.messageType \in {MT_REGULAR, MT_NOTIFICATION, MT_HELLO} =>
              /\ sockets[ev.id] = "open"
              /\ Post.authenticated = ev.pre.authenticated
              /\ Post.sharedSecret = ev.pre.sharedSecret
        /\ Request.messageType \in {MT_REGULAR, MT_NOTIFICATION} =>
              Post.authState = ev.pre.authState
        /\ Request.messageType = MT_HELLO =>
              /\ Len(ev.wire) = 1
              /\ Post.authState.clientPublicKey = ReadU32BE(Request.payload, 0)
        /\ Request.messageType = MT_CLIENT_AUTH =>
              /\ ev.wire = <<>>
              /\ Post.authState = ev.pre.authState
              /\ Post.authenticated =>
                    ev.pre.authenticated \/ Logged("Information", "Auth_Success")
              /\ sockets[ev.id] = "open" <=> Logged("Information", "Auth_Success")
        /\ Request.messageType = MT_REGULAR =>
              /\ Len(ev.wire) = 1
              /\ SubSeq(Response(1).payload, 1, 3)
                    = SubSeq(Request.payload, 1, 2) \o <<Request.payload[3] + 128>>
        /\ Request.messageType = MT_NOTIFICATION => ev.wire = <<>>

\* C22 witness: on an authenticated connection the database rejected the row
\* of a START, which was answered with 0x81, and took the row of the HOME
\* that followed
C22_Witness ==
    /\ OneFrame
    /\ ev.pre.authenticated
    /\ ev.db
    /\ ~ev.prev
    /\ ev.device # "Mowing"
    /\ ev.pre.lastActivity = ev.at
    /\ Request.payload = <<18, 52, CMD_CONTROL_DEVICE, ACTION_HOME>>
    /\ Len(ev.wire) = 1
    /\ device_states = "ReturningToStation"

\* C23: when start-up has ended, or has stopped on a port that another
\* process holds, every row whose port is free has its listener: the failed
\* bind neither aborts start-up nor leaves it waiting forever.
C23_OthersStarted ==
    servers.phase \in {"started", "crashed", "hung"} =>
        /\ servers.phase = "started"
        /\ \A i \in DOMAIN Provisioned :
              Provisioned[i].port_number \notin servers.busy =>
                  Provisioned[i].port_number \in servers.listening

\* C24: stopServers destroys every live socket before it closes a listener,
\* and when it has returned the service holds no connection and no listener
\* and no socket is open; the 'close' of a destroyed socket logs
\* Connection_Closed.
C24_StopServers ==
    /\ servers.phase = "stopped" =>
          /\ connections = <<>>
          /\ servers.listening = {}
          /\ \A i \in DOMAIN sockets : sockets[i] # "open"
          /\ \A i, j \in DOMAIN servers.stops :
                (servers.stops[i][1] = "destroy" /\ servers.stops[j][1] = "close") => i < j
    /\ ev.kind = "stop" =>
          /\ \A k \in DOMAIN servers.stops :
                servers.stops[k][1] = "destroy" => sockets[servers.stops[k][2]] = "destroyed"
          /\ Cardinality({k \in DOMAIN servers.stops : servers.stops[k][1] = "close"}) >= 1
    /\ (ev.kind = "close" /\ ev.socket = "destroyed") =>
          Logged("Information", "Connection_Closed")

\* C24 witness: stopServers ended two live connections and three listeners,
\* and the second of the connections has logged its close
C24_Witness ==
    /\ servers.phase = "stopped"
    /\ Len(servers.stops) = 5
    /\ servers.stops[2][1] = "destroy"
    /\ servers.stops[3][1] = "close"
    /\ ev.kind = "close"
    /\ ev.socket = "destroyed"
    /\ \A i \in DOMAIN sockets : sockets[i] = "closed"

\* C25: once a connection has closed, by a 'close' or an 'error' event, none
\* of its inactivity timers is armed, so that none can log Connection_Timeout
\* or destroy the socket afterwards, whatever data events came before.
C25_NoTimerAfterClose ==
    /\ \A t \in timers : sockets[t.id] \in {"open", "destroyed"}
    /\ ev.kind = "timeout" => ev.socket \in {"open", "destroyed"}

\* C26: no receiver hands the payload of a frame whose checksum is wrong to
\* the layers above: the service processes no frame of it and writes nothing,
\* the client of the dispatcher emits no event for it and keeps no payload.
C26_BadChecksumDropped ==
    /\ ev.kind = "data" /\ parseFrame(ev.chunk).err = "Checksum mismatch"
          => ev.processed = <<>> /\ ev.wire = <<>>
    /\ client.last.frame # <<>> /\ parseFrame(client.last.frame).err = "Checksum mismatch"
          => /\ client.last.emitted = "none"
             /\ clientParseFrame(client.last.frame).payload \notin client.received

\* C27: for secrets s_a and s_b of [1, 0xFFFF] the shared secret of
\* calculatePublicKey(s_a) and s_b is that of calculatePublicKey(s_b) and s_a;
\* and after a handshake both ends accepted, the client of the dispatcher
\* and the connection of the service hold the same shared secret.
C27_SharedSecretAgrees ==
    /\ exchange.step = "shared" =>
          /\ exchange.sharedA = calculateSharedSecret(calculatePublicKey(exchange.b), exchange.a)
          /\ exchange.sharedB = calculateSharedSecret(calculatePublicKey(exchange.a), exchange.b)
          /\ exchange.sharedA = exchange.sharedB
    /\ (client.authenticated /\ client.id \in DOMAIN connections
           /\ connections[client.id].authenticated) =>
          /\ client.sharedSecret # NULL
          /\ client.sharedSecret = connections[client.id].sharedSecret

\* a handshake both ends accepted with the secrets of an agreement computed
\* before it: both ends hold its shared secret, which is no trivial value
C27_Witness ==
    /\ exchange.step = "shared"
    /\ exchange.a # exchange.b
    /\ client.authenticated /\ client.id \in DOMAIN connections
    /\ connections[client.id].authenticated
    /\ client.clientSecret = exchange.a
    /\ connections[client.id].authState.serverSecret = exchange.b
    /\ client.sharedSecret = exchange.sharedA
    /\ connections[client.id].sharedSecret = exchange.sharedB
    /\ exchange.sharedA \notin {W(0, 0), W(0, 1)}

\* the positions at which a frame differs from another of its length
DiffersAt(frame, original) == {k \in DOMAIN frame : frame[k] # original[k]}

\* one position, and it is one of these
OneOf(positions, among) == Cardinality(positions) = 1 /\ positions \subseteq among

\* the frame of the codec is the frame of its payload with exactly one byte
\* of the payload changed
OnePayloadByteChanged ==
    /\ Len(codec.frame) = Len(codec.payload) + Len(encodeLength(Len(codec.payload))) + 3
    /\ OneOf(DiffersAt(codec.frame, createFrame(codec.payload)),
             {PayloadOffset(codec.payload, i) : i \in DOMAIN codec.payload})

\* C28: for a frame of createFrame with exactly one byte of its payload
\* changed, parseFrame fails with "Checksum mismatch" and returns no payload.
C28_DamageDetected ==
    (codec.result.err # "none" /\ OnePayloadByteChanged) =>
        /\ codec.result.err = "Checksum mismatch"
        /\ codec.result.payload = <<>>
        /\ codec.result.totalLength = 0

\* a damaged frame was parsed: the last byte of a payload of two bytes went
\* from 255 to 254, the smallest change of the sum
C28_Witness ==
    /\ codec.result.err = "Checksum mismatch"
    /\ OnePayloadByteChanged
    /\ codec.payload = <<170, 255>>
    /\ codec.frame[4] = 254

\* C29: createFrame returns no frame for a payload of more than 2^21 - 1
\* bytes, and the length field of a frame it returns has at most 3 bytes.
C29_OverlongRejected ==
    codec.step # "drawn" =>
        /\ codec.length > Pow2(21) - 1 => ~codec.returned
        /\ codec.returned => Len(codec.lengthField) <= 3

\* the event logged this one Warning and did nothing else: no frame written,
\* no state, battery level or position stored, the socket open, the
\* authentication state as before
IgnoredWithWarning(eventType) ==
    /\ ev.logs = <<<<"Warning", eventType>>>>
    /\ ev.wire = <<>>
    /\ ev.states = <<>> /\ ev.battery = <<>> /\ ev.gps = <<>>
    /\ device_states = ev.device
    /\ ev.id \in DOMAIN connections
    /\ sockets[ev.id] = "open"
    /\ Post.authenticated = ev.pre.authenticated
    /\ Post.authState = ev.pre.authState
    /\ Post.sharedSecret = ev.pre.sharedSecret

\* C30: a session message whose type is none of HELLO, CLIENT_AUTH, REGULAR
\* and NOTIFICATION, a REGULAR message that passed the gate with a command
\* byte that is none of the four commands, and a NOTIFICATION whose type is
\* neither DeviceStatus nor PositionUpdate are each logged at Warning and
\* ignored.
C30_UnknownIgnored ==
    /\ (OneFrame /\ Request.err = OK
          /\ Request.messageType \notin {MT_HELLO, MT_CLIENT_AUTH, MT_REGULAR, MT_NOTIFICATION})
          => IgnoredWithWarning("Unknown_Message_Type")
    /\ (IsRequest(MT_REGULAR) /\ ev.handled # <<>>
          /\ ev.handled[1].command.command \notin
                {CMD_HEARTBEAT, CMD_CONTROL_DEVICE, CMD_ACK_ERROR, CMD_RESET_BLADE_TIME})
          => IgnoredWithWarning("Unknown_Command")
    /\ (IsRequest(MT_NOTIFICATION) /\ Len(Request.payload) >= 1
          /\ Request.payload[1] \notin {NT_DEVICE_STATUS, NT_POSITION_UPDATE})
          => IgnoredWithWarning("Unknown_Notification")

\* an authenticated connection received a REGULAR message with the command
\* byte 7 and ignored it
C30_Witness ==
    /\ IsRequest(MT_REGULAR)
    /\ ev.pre.authenticated
    /\ ev.handled # <<>>
    /\ ev.handled[1].command.command = 7
    /\ IgnoredWithWarning("Unknown_Command")

-----------------------------------------------------------------------------
(* Independence of connections, the dispatcher's failures, the handshake   *)
(* of the service, the states that are stored.                             *)

\* a step leaves every connection other than the one of its event as it was:
\* the authenticated flag, the shared secret, the stored handshake values and
\* the receive buffer
OthersUntouched ==
    \A id \in DOMAIN connections :
        (id \in DOMAIN connections' /\ (ev' = ev \/ ev'.id # id)) =>
            /\ connections'[id].authenticated = connections[id].authenticated
            /\ connections'[id].sharedSecret = connections[id].sharedSecret
            /\ connections'[id].authState = connections[id].authState
            /\ connections'[id].buffer = connections[id].buffer

\* a REGULAR message on a connection that is not authenticated, under an HMAC
\* that is not the bypass constant, is rejected, whatever the other
\* connections are
GatePerConnection ==
    (IsRequest(MT_REGULAR) /\ ~ev.pre.authenticated
        /\ Request.hmac # <<250, 222, 219, 237>>) => Rejected

\* C31: a handshake message, a command or a decode error on one connection
\* never changes the authenticated flag, the shared secret, the stored
\* handshake values or the receive buffer of another connection, and a
\* REGULAR message under an HMAC that is not the bypass constant is rejected on
\* a connection that is not authenticated while another connection is.
C31_Independent == [][OthersUntouched]_vars /\ []GatePerConnection

\* connection 1 is authenticated and open, and connection 2, accepted while
\* 1 was open, has just rejected a heartbeat under the HMAC 00000000
C31_Witness ==
    /\ 1 \in DOMAIN connections /\ connections[1].authenticated /\ sockets[1] = "open"
    /\ ev.kind = "data" /\ ev.id = 2
    /\ IsRequest(MT_REGULAR)
    /\ Request.hmac = <<0, 0, 0, 0>>
    /\ ~connections[2].authenticated
    /\ Rejected

\* C32: a wire-layer failure in the client of the dispatcher (a frame that
\* cannot be parsed, a CHALLENGE that is too short, an authS that does not
\* verify) ends the call with an error for its caller, and does not leave the
\* connection as an exception no handler catches.
C32_WireErrorReturned ==
    client.last.emitted = "error" =>
        /\ ~client.crashed
        /\ call.phase = "failed"

Written == parseFrame(ev.wire[1]).payload

\* C34: on a HELLO with a body of 4 bytes or more the service writes exactly
\* one frame; the 16 bytes after its type byte CHALLENGE are serverPub, nonce
\* and authS, big-endian, with serverPub = 5^serverSecret mod 0xFFFFFFFB and
\* authS = mac(PSK, serverPub ++ clientPub ++ nonce); serverSecret, clientPub,
\* serverPub and nonce are stored for the connection, and the authenticated
\* flag is as before.
C34_Challenge ==
    (IsRequest(MT_HELLO) /\ Len(Request.payload) >= 4) =>
        /\ Len(ev.wire) = 1
        /\ parseFrame(ev.wire[1]).err = OK
        /\ Len(Written) >= 17
        /\ Written[Len(Written) - 16] = MT_CHALLENGE
        /\ Post.authState.serverSecret \in ServerSecrets
        /\ Post.authState.nonce \in Nonces
        /\ Post.authState.clientPublicKey = ReadU32BE(Request.payload, 0)
        /\ Post.authState.serverPublicKey = calculatePublicKey(Post.authState.serverSecret)
        /\ SliceFrom(Written, Len(Written) - 16) =
              U32BE(Post.authState.serverPublicKey) \o U64BE(Post.authState.nonce)
                  \o U32BE(XorW(calculateHash(U32BE(Post.authState.serverPublicKey)
                                                  \o U32BE(Post.authState.clientPublicKey)
                                                  \o U64BE(Post.authState.nonce)),
                                PSK))
        /\ Post.authenticated = ev.pre.authenticated
        /\ Post.sharedSecret = ev.pre.sharedSecret
        /\ sockets[ev.id] = "open"

\* a HELLO was answered on a connection that had stored another HELLO before:
\* the secret drawn this time is 0xFFFF, the one stored before was not
C34_Witness ==
    /\ IsRequest(MT_HELLO) /\ Len(Request.payload) >= 4
    /\ Len(ev.wire) = 1
    /\ ev.pre.authState.serverSecret \notin {NULL, W(0, 65535)}
    /\ Post.authState.serverSecret = W(0, 65535)

\* C35: the payload of every frame the service writes is a session message:
\* four bytes of HMAC, then the type byte, which is CHALLENGE in the answer to
\* a HELLO and REGULAR in the response to a command.
C35_SessionMessage ==
    \A i \in 1..Len(ev.wire) :
        /\ parseFrame(ev.wire[i]).err = OK
        /\ Len(parseFrame(ev.wire[i]).payload) >= 5
        /\ parseFrame(ev.wire[i]).payload[5] =
               IF IsRequest(MT_HELLO) THEN MT_CHALLENGE ELSE MT_REGULAR

\* C36: a HELLO is acted on only while the connection awaits its first HELLO:
\* one received after a HELLO was stored, or after authentication, sends no
\* CHALLENGE and leaves the stored serverSecret, clientPub, serverPub and nonce
\* as they were.
C36_HelloOnlyOnce ==
    (/\ IsRequest(MT_HELLO)
     /\ Len(Request.payload) >= 4
     /\ (ev.pre.authState.nonce # NULL \/ ev.pre.authenticated)) =>
        /\ ev.wire = <<>>
        /\ Post.authState = ev.pre.authState

\* C37: the shared secret of an authenticated connection is
\* clientPub^serverSecret mod 0xFFFFFFFB for the clientPub and the serverSecret
\* the connection stores.
C37_SecretOfStoredKeys ==
    \A id \in DOMAIN connections :
        connections[id].authenticated =>
            connections[id].sharedSecret =
                SharedSecret(connections[id].authState.clientPublicKey,
                             connections[id].authState.serverSecret)

\* C38: with calls of executeAction running at a time for one device, an
\* action whose new state was written was permitted by the table of
\* validateActionForState for the latest row of device_states at the moment
\* of the INSERT (the row of the call's own TCP command left aside).
C38_PermittedWhenPersisted ==
    \A c \in CallIds :
        (calls[c].phase = "done" /\ calls[c].newState # "") =>
            validateActionForState(calls[c].action, getCurrentState(calls[c].latest))

\* C39: when executeAction fails after its action was found valid (the
\* connection, the authentication, the response or the protocol failed), the
\* latest row of device_states is the one it was when the call began: neither
\* executeAction nor the service's handler of the command has written one.
C39_FailureLeavesState ==
    (/\ call.kind = "action"
     /\ call.phase = "failed"
     /\ call.logged # <<>>) =>
        device_states = call.latest

\* C40: every state name written to device_states is one of the six states
\* StationCharging, StationChargingCompleted, Mowing, ReturningToStation,
\* Paused and Error.
C40_CanonicalStates ==
    /\ \A i \in 1..Len(ev.states) : ev.states[i] \in DeviceStates \ {"Unknown"}
    /\ \A i \in 1..Len(call.wrote) : call.wrote[i] \in DeviceStates \ {"Unknown"}

=============================================================================
